---------------------------- MODULE Spec2Model ----------------------------
(***************************************************************************)
(* A model of the Parody Critics server: the LLM critic generation manager *)
(* (endpoint fallback, rating extraction, motif variation), the critic     *)
(* generation endpoints of the API server, character deletion, and the     *)
(* orchestrated Jellyfin library sync.                                     *)
(*                                                                         *)
(* The module holds several specifications over one set of variables; each *)
(* specification drives one component and leaves the variables of the      *)
(* other components at their idle values.                                  *)
(*   SpecLLM    CriticGenerationManager.generate_critic                    *)
(*   SpecParse  CriticGenerationManager.parse_critic_response              *)
(*   SpecGen    generate_critic_for_media requests of api/main.py,         *)
(*              interleaved at their await points, and delete_character    *)
(*   SpecCart   generate_cart_batch_critics and delete_character           *)
(*   SpecChar   the character endpoints of api/main.py                     *)
(*   SpecSync   SyncManager.sync_jellyfin_library                          *)
(*   SpecMotif  CriticGenerationManager._select_variation_pack             *)
(*   SpecMigrate  the migration scripts of database/                       *)
(*   SpecList   the list endpoints of api/main.py                          *)
(*   SpecHybrid JellyfinSyncManager.start_sync and the sync endpoints      *)
(*   SpecImport perform_media_import and the import sessions               *)
(*   SpecSetup  save_setup_configuration                                   *)
(*   SpecCleanup SyncManager.cleanup_orphaned_media                        *)
(***************************************************************************)
EXTENDS Integers, Sequences, FiniteSets, TLC

VARIABLES
    \* --- api/llm_manager.py: CriticGenerationManager ---
    llmConfig,          \* Config: LLM_ENABLE_FALLBACK, LLM_OPENAI_API_KEY set or not
    generation_stats,   \* self.generation_stats counters
    llmCall,            \* the last generate_critic call: its inputs and its return value
    \* --- parse_critic_response ---
    raw_response,       \* the raw LLM text handed to parse_critic_response
    parsed,             \* the value parse_critic_response returned for it
    \* --- the database (tables characters, media, critics) ---
    characters,         \* rows of table characters: [id, name, active]
    media,              \* rows of table media
    critics,            \* rows of table critics: [id, media_id, character_id, rating]
    nextCriticId,       \* the AUTOINCREMENT counter of table critics
    \* --- api/main.py: requests in flight on the event loop ---
    reqs,               \* the generate_critic_for_media calls, one per client slot
    cart,               \* the generate_cart_batch_critics call
    lastOp,             \* the handler that ran last and what it answered
    deleted,            \* the character ids the delete endpoint has removed
    \* --- utils/sync_manager.py: SyncManager ---
    library,            \* the items the Jellyfin server holds
    sync,               \* the sync_jellyfin_library run: position and counters
    \* --- table character_motif_history and _select_variation_pack ---
    motif_history,      \* rows of character_motif_history, in insertion order
    variation,          \* the last _select_variation_pack call and its return value
    \* --- database/migrate_*.py ---
    db,                 \* the database file the migration scripts run against
    migration,          \* the migration script that ran last and how it ended
    \* --- api/main.py: the list endpoints ---
    catalog,            \* table media by title: how many rows carry each title
    sync_log_rows,      \* the number of rows of table sync_log
    listing,            \* the list request answered last and its response
    \* --- api/jellyfin_sync.py: JellyfinSyncManager ---
    current_sync,       \* self.current_sync, the SyncProgress of the manager
    sync_loops,         \* the start_sync calls suspended in their batch loop
    hybrid,             \* the Jellyfin database, the rows upserted, the answers
    \* --- utils/websocket_manager.py and perform_media_import ---
    import_session,     \* the import session, its background task, the broadcasts
    \* --- api/main.py: save_setup_configuration ---
    env_file,           \* the settings the .env file holds
    setup,              \* the configuration-save request answered last
    \* --- api/main.py: generate_batch_critics ---
    batch,              \* the batch-by-character request and its position
    \* --- utils/websocket_manager.py: the registry and _broadcast_to_session ---
    connections,        \* self.connections, in the order of insertion
    broadcast,          \* the _broadcast_to_session call made last
    \* --- utils/jellyfin_client.py: _make_request ---
    jf_request,         \* the _make_request call made last, its attempts and waits
    soul                \* the soul generator: its endpoint cache and the call in progress

llmVars   == <<llmConfig, generation_stats, llmCall>>
parseVars == <<raw_response, parsed>>
dbVars    == <<characters, media, critics, nextCriticId>>
apiVars   == <<reqs, cart, lastOp, deleted>>
syncVars  == <<library, sync>>
motifVars == <<motif_history, variation>>
migrateVars == <<db, migration>>
listVars  == <<catalog, sync_log_rows, listing>>
hybridVars == <<current_sync, sync_loops, hybrid>>
setupVars == <<env_file, setup>>
wsVars    == <<connections, broadcast>>
restVars  == <<migrateVars, listVars, hybridVars, import_session, setupVars,
               batch, wsVars, jf_request, soul>>
vars      == <<llmConfig, generation_stats, llmCall, raw_response, parsed,
               characters, media, critics, nextCriticId,
               reqs, cart, lastOp, deleted, library, sync,
               motif_history, variation, db, migration,
               catalog, sync_log_rows, listing,
               current_sync, sync_loops, hybrid, import_session,
               env_file, setup, batch, connections, broadcast,
               jf_request,
               soul>>

None == "None"

-----------------------------------------------------------------------------
(***************************************************************************)
(* Bounds of the model.                                                    *)
(***************************************************************************)
MaxCalls == 2      \* generate_critic calls made in one behaviour
MaxLen == 6        \* length of a raw response, in tokens
MaxCartLen == 2    \* length of media_items and of selected_critics
MaxRuns == 2       \* sync_jellyfin_library runs in one behaviour
MaxEarlier == 8    \* generations that filled the motif history before Init
MaxSelections == 2 \* _select_variation_pack calls in one behaviour

-----------------------------------------------------------------------------
(***************************************************************************)
(* The database as initialised and seeded, and the idle values of the      *)
(* requests.                                                               *)
(***************************************************************************)

\* The two baseline personas of the seed.
SeedCharacters ==
    {[id |-> "marco_aurelio",   name |-> "Marco Aurelio",   active |-> TRUE],
     [id |-> "rosario_costras", name |-> "Rosario Costras", active |-> TRUE]}

MediaRow(id, jf, tmdb, title, at) ==
    [id |-> id, jellyfin_id |-> jf, tmdb_id |-> tmdb, title |-> title,
     updated_at |-> at]

\* Two sample media rows.
SeedMedia ==
    {MediaRow(1, "jf_1", "tmdb_1", "A", 0), MediaRow(2, "jf_2", "tmdb_2", "B", 0)}

\* The schema of table media: tmdb_id and jellyfin_id are unique.
MediaUnique(table) ==
    \A m, n \in table :
        (m.tmdb_id = n.tmdb_id \/ m.jellyfin_id = n.jellyfin_id) => m = n

Requests == {"r1", "r2"}

IdleReq == [pc |-> "idle", tmdb_id |-> None, character |-> None,
            media_id |-> 0, character_id |-> None, status |-> 0,
            critic_id |-> 0, overlap |-> FALSE]

IdleCart == [pc |-> "idle", media_items |-> <<>>, selected_critics |-> <<>>,
             media_dict |-> {}, critic_dict |-> {}, k |-> 0, results |-> <<>>,
             processed |-> 0, status |-> 0, generated |-> <<>>,
             all_exist |-> FALSE]

NoOp == [kind |-> "none", target |-> None, status |-> 0, count |-> 0]

\* No sync run has started; the server holds the item of the first sample
\* row.
IdleSync ==
    /\ library = {[Id |-> "jf_1", Tmdb |-> "tmdb_1", Name |-> "A"]}
    /\ sync = [pc |-> "idle", items |-> {}, pending |-> {}, log |-> {},
               processed |-> 0, added |-> 0, updated |-> 0, unchanged |-> 0,
               errors |-> 0, status |-> "none", runs |-> 0, now |-> 0]

NoVariation == [made |-> FALSE, calls |-> 0, character_id |-> None,
                motifs |-> {}, read |-> {}, recent |-> {}, selected |-> {}]

IdleMotif ==
    /\ motif_history = <<>>
    /\ variation = NoVariation

\* No migration script has run; the database file has the base schema and
\* no character rows.
NoMigration == [script |-> None, error |-> FALSE, runs |-> 0]

EmptyDb == [media_columns |-> {}, character_columns |-> {},
            motif_table |-> FALSE, rows |-> {}, history |-> {}]

IdleMigrate ==
    /\ db = EmptyDb
    /\ migration = NoMigration

\* No list request has been answered; the listed tables are empty.
NoListing == [endpoint |-> None, query |-> <<>>, limit |-> 0, status |-> 0,
              mode |-> None, titles |-> {}, rows |-> 0]

IdleList ==
    /\ catalog = [title \in {} |-> 0]
    /\ sync_log_rows = 0
    /\ listing = NoListing

\* JellyfinSyncManager.__init__: self.current_sync = None.
NoSync == [sync_id |-> 0, status |-> "none", total_items |-> 0,
           processed_items |-> 0, successful_items |-> 0]

NoAnswer == [kind |-> None, status |-> 0, sync_id |-> 0]

IdleHybrid ==
    /\ current_sync = NoSync
    /\ sync_loops = {}
    /\ hybrid = [items |-> 0, synced |-> {}, batches |-> 0, started |-> 0,
                 answer |-> NoAnswer]

\* No import session has been started.
NoImport == [exists |-> FALSE, pc |-> "none", status |-> "none",
             processed_items |-> 0, total_items |-> 0, active |-> FALSE,
             sent |-> <<>>, cancels |-> 0]

IdleImport == import_session = NoImport

\* No configuration has been saved: there is no .env file.
NoEnvFile == [written |-> FALSE, JELLYFIN_URL |-> None,
              JELLYFIN_API_TOKEN |-> None, LLM_OLLAMA_URL |-> None,
              LLM_PRIMARY_MODEL |-> None, LLM_SECONDARY_MODEL |-> None,
              LLM_TIMEOUT |-> None, LLM_ENABLE_FALLBACK |-> None]

NoSetup == [status |-> 0, detail |-> {}]

IdleSetup ==
    /\ env_file = NoEnvFile
    /\ setup = NoSetup

\* No batch-by-character request has been made.
IdleBatch == [pc |-> "idle", character |-> None, character_id |-> None,
              media_rows |-> <<>>, k |-> 0, processed |-> 0,
              results |-> <<>>, status |-> 0]

\* No broadcast has been made.
NoBroadcast == [pc |-> "idle", session_id |-> None, message_type |-> None,
                tasks |-> <<>>, results |-> <<>>, raised |-> FALSE]

\* No client is connected.
IdleWs ==
    /\ connections = <<>>
    /\ broadcast = NoBroadcast

\* No request has been made by the Jellyfin client.
NoRequest == [pc |-> "idle", max_retries |-> 0, attempt |-> 0, log |-> <<>>,
              last_error |-> None, error |-> None, status_code |-> 0]

IdleRequest == jf_request = NoRequest


\* The soul generator before any call: no endpoint cached.
NoSoul ==
    [pc |-> "idle", op |-> None, archetype |-> None, field |-> None,
     searches |-> 0, snippets |-> 0, endpoint_cache |-> None, probed |-> 0,
     ep |-> None, personality |-> None, error |-> None, calls |-> 0]

IdleSoul == soul = NoSoul

IdleRest ==
    /\ IdleSoul
    /\ IdleRequest
    /\ batch = IdleBatch
    /\ IdleWs
    /\ IdleMigrate
    /\ IdleList
    /\ IdleHybrid
    /\ IdleImport
    /\ IdleSetup

IdleGen ==
    /\ IdleSync
    /\ IdleMotif
    /\ IdleRest
    /\ characters = SeedCharacters
    /\ media = SeedMedia
    /\ critics = {}
    /\ nextCriticId = 1
    /\ reqs = [r \in Requests |-> IdleReq]
    /\ cart = IdleCart
    /\ lastOp = NoOp
    /\ deleted = {}

-----------------------------------------------------------------------------
(***************************************************************************)
(* CriticGenerationManager: endpoints and generate_critic                  *)
(***************************************************************************)

\* setup_endpoints: the two Ollama endpoints, and the OpenAI one when an API
\* key is configured.
Endpoints(cfg) ==
    {"ollama_primary", "ollama_secondary"}
        \cup (IF cfg.openai THEN {"openai_gpt4"} ELSE {})

\* The "priority" field of each endpoint.
EndpointPriority(e) ==
    CASE e = "ollama_primary"   -> 1
      [] e = "ollama_secondary" -> 2
      [] e = "openai_gpt4"      -> 3

\* sorted(self.endpoints.items(), key=priority): ascending priority.
RECURSIVE SortedByPriority(_)
SortedByPriority(S) ==
    IF S = {} THEN <<>>
    ELSE LET first == CHOOSE e \in S :
                        \A o \in S : EndpointPriority(e) <= EndpointPriority(o)
         IN  <<first>> \o SortedByPriority(S \ {first})

\* A mutation of the order: descending priority.
SortedByPriorityDesc(S) ==
    LET asc == SortedByPriority(S)
    IN  [i \in 1..Len(asc) |-> asc[Len(asc) + 1 - i]]

EndpointOrder(S) == SortedByPriority(S)

\* The values force_endpoint takes: None, the empty string, a name that is no
\* endpoint, and the endpoint names.
ForceValues == {None, "", "bogus", "ollama_primary", "ollama_secondary", "openai_gpt4"}

\* A mutation of the choice of endpoints: force_endpoint is ignored.
EndpointsInPriorityOrder(cfg, force) == EndpointOrder(Endpoints(cfg))

\* `if force_endpoint and force_endpoint in self.endpoints` ... else the
\* priority order.
EndpointsToTry(cfg, force) ==
    IF force # None /\ force # "" /\ force \in Endpoints(cfg)
    THEN <<force>>
    ELSE EndpointOrder(Endpoints(cfg))

\* What one endpoint does when asked: "ok" is a JSON body with a response,
\* "no_response_key" a JSON body without one (result["response"] raises
\* KeyError), "fail" a timeout, an HTTP error or a connection error.
OllamaOutcomes == {"ok", "fail", "no_response_key"}

\* _generate_with_endpoint followed by the attempt's bookkeeping: whether the
\* attempt on endpoint e ends in the success branch.  The OpenAI endpoint
\* always raises NotImplementedError.
AttemptSucceeds(e, outcome) ==
    /\ e # "openai_gpt4"
    /\ outcome[e] = "ok"

Attempt(e, status) == [endpoint |-> e, status |-> status]

\* A mutation of the fallback switch: the loop stops after the first failure
\* even when fallback is enabled.
FallbackStopsAlways(cfg) == TRUE

\* `if not getattr(self.config, 'LLM_ENABLE_FALLBACK', True): break`
FallbackStops(cfg) == ~cfg.fallback

\* The loop over endpoints_to_try of generate_critic, with its early return
\* on the first success and its break when fallback is disabled.
RECURSIVE TryEndpoints(_, _, _, _)
TryEndpoints(cfg, toTry, outcome, attempts) ==
    IF toTry = <<>>
    THEN [success |-> FALSE, endpoint_used |-> None, attempts |-> attempts]
    ELSE LET e == Head(toTry) IN
         IF AttemptSucceeds(e, outcome)
         THEN [success       |-> TRUE,
               endpoint_used |-> e,
               attempts      |-> Append(attempts, Attempt(e, "success"))]
         ELSE LET failed == Append(attempts, Attempt(e, "failed")) IN
              IF FallbackStops(cfg)
              THEN [success |-> FALSE, endpoint_used |-> None, attempts |-> failed]
              ELSE TryEndpoints(cfg, Tail(toTry), outcome, failed)

\* generate_critic's return value.
GenerateCriticResult(cfg, force, outcome) ==
    TryEndpoints(cfg, EndpointsToTry(cfg, force), outcome, <<>>)

\* The statistics of the manager: total_requests is counted before the first
\* endpoint is awaited, the outcome when the loop over the endpoints ends.
StatsAtCall(stats) == [stats EXCEPT !.total_requests = @ + 1]

StatsAtReturn(stats, result) ==
    [stats EXCEPT !.successful_requests = @ + (IF result.success THEN 1 ELSE 0),
                  !.failed_requests     = @ + (IF result.success THEN 0 ELSE 1)]

\* generate_critic as an operation on the manager: the statistics and the
\* returned result.
GenerateCritic(force, outcome) ==
    LET result == GenerateCriticResult(llmConfig, force, outcome) IN
    /\ generation_stats.total_requests < MaxCalls
    /\ generation_stats' = StatsAtReturn(StatsAtCall(generation_stats), result)
    /\ llmCall' = [made |-> TRUE, force |-> force, outcome |-> outcome,
                   result |-> result]
    /\ UNCHANGED llmConfig

GenerateCriticCall ==
    /\ \E force \in ForceValues :
       \E outcome \in [{"ollama_primary", "ollama_secondary"} -> OllamaOutcomes] :
           GenerateCritic(force, outcome)
    /\ UNCHANGED <<restVars, parseVars, dbVars, apiVars, syncVars, motifVars>>

NoResult == [success |-> FALSE, endpoint_used |-> None, attempts |-> <<>>]

NoCall == [made |-> FALSE, force |-> None,
           outcome |-> [e \in {"ollama_primary", "ollama_secondary"} |-> "fail"],
           result |-> NoResult]

InitStats == [total_requests |-> 0, successful_requests |-> 0, failed_requests |-> 0]

DefaultConfig == [fallback |-> TRUE, openai |-> FALSE]

IdleLLM ==
    /\ llmConfig = DefaultConfig
    /\ generation_stats = InitStats
    /\ llmCall = NoCall

NotParsed == [returned |-> FALSE, rating |-> 0]

IdleParse ==
    /\ raw_response = <<>>
    /\ parsed = NotParsed

InitLLM ==
    /\ llmConfig \in [fallback : BOOLEAN, openai : BOOLEAN]
    /\ generation_stats = InitStats
    /\ llmCall = NoCall
    /\ IdleParse
    /\ IdleGen

NextLLM == GenerateCriticCall

SpecLLM == InitLLM /\ [][NextLLM]_vars

-----------------------------------------------------------------------------
\* C2: with a primary endpoint that always fails and a secondary that always
\* succeeds, generate_critic without a forced endpoint and with fallback
\* enabled returns success attributed to the secondary (priority-2) endpoint
\* and its attempts are exactly <<failed on the primary, success on the
\* secondary>>.
PrimaryFailsSecondarySucceeds ==
    /\ llmCall.made
    /\ llmCall.force = None
    /\ llmConfig.fallback
    /\ llmCall.outcome["ollama_primary"] # "ok"
    /\ llmCall.outcome["ollama_secondary"] = "ok"

C2_FallbackOrder ==
    PrimaryFailsSecondarySucceeds =>
        /\ llmCall.result.success
        /\ llmCall.result.endpoint_used = "ollama_secondary"
        /\ EndpointPriority(llmCall.result.endpoint_used) = 2
        /\ llmCall.result.attempts =
             <<Attempt("ollama_primary", "failed"),
               Attempt("ollama_secondary", "success")>>

C2_Witness ==
    /\ PrimaryFailsSecondarySucceeds
    /\ llmCall.result.success
    /\ Len(llmCall.result.attempts) = 2

-----------------------------------------------------------------------------
(***************************************************************************)
(* CriticGenerationManager.parse_critic_response                           *)
(*                                                                         *)
(* A raw response is a sequence of tokens.  A digit token is one decimal   *)
(* digit; "Puntuacion", "Calificacion" and "Nota" are the three keywords   *)
(* of the rating patterns in any letter case (the search is IGNORECASE);   *)
(* ":" is a character of the class [:\s]; "/" is the slash, which is also  *)
(* a character that no pattern skips.  The responses explored are written  *)
(* with the digits, the keywords and the slash (InputTokens).              *)
(***************************************************************************)
Digits   == {"0", "1", "7"}
Keywords == {"Puntuacion", "Calificacion", "Nota"}
Tokens   == Digits \cup Keywords \cup {"/", ":"}
InputTokens == Digits \cup Keywords \cup {"/"}

DigitValue(d) == CASE d = "0" -> 0 [] d = "1" -> 1 [] d = "7" -> 7

At(text, i) == IF i >= 1 /\ i <= Len(text) THEN text[i] ELSE None

\* int(match.group(1)): the value of the digits text[i..j].
RECURSIVE IntOf(_, _, _)
IntOf(text, i, j) ==
    IF j < i THEN 0 ELSE IntOf(text, i, j - 1) * 10 + DigitValue(text[j])

\* \d+ is greedy: the last index of the run of digits that starts at i.
RECURSIVE DigitRunEnd(_, _)
DigitRunEnd(text, i) ==
    IF At(text, i + 1) \in Digits THEN DigitRunEnd(text, i + 1) ELSE i

\* [:\s]* is greedy: the first index at or after i that is not in the class.
RECURSIVE SkipSeparators(_, _)
SkipSeparators(text, i) ==
    IF At(text, i) = ":" THEN SkipSeparators(text, i + 1) ELSE i

NoMatch == -1

\* The match of one pattern anchored at index i: the captured number, or
\* NoMatch.  Pattern "slash10" is (\d+)/10; a keyword pattern is
\* KEYWORD[:\s]*(\d+).
MatchAt(pattern, text, i) ==
    IF pattern = "slash10"
    THEN IF At(text, i) \in Digits
         THEN LET e == DigitRunEnd(text, i) IN
              IF /\ At(text, e + 1) = "/"
                 /\ At(text, e + 2) = "1"
                 /\ At(text, e + 3) = "0"
              THEN IntOf(text, i, e)
              ELSE NoMatch
         ELSE NoMatch
    ELSE IF At(text, i) = pattern
         THEN LET s == SkipSeparators(text, i + 1) IN
              IF At(text, s) \in Digits
              THEN IntOf(text, s, DigitRunEnd(text, s))
              ELSE NoMatch
         ELSE NoMatch

\* re.search: the leftmost index at which the pattern matches.
RECURSIVE Search(_, _, _)
Search(pattern, text, i) ==
    IF i > Len(text) THEN NoMatch
    ELSE IF MatchAt(pattern, text, i) # NoMatch
         THEN MatchAt(pattern, text, i)
         ELSE Search(pattern, text, i + 1)

\* A mutation of the pattern order: the keyword patterns before N/10.
rating_patterns_keywords_first == <<"Puntuacion", "Calificacion", "Nota", "slash10">>

\* rating_patterns, in the order the loop tries them.
rating_patterns == <<"slash10", "Puntuacion", "Calificacion", "Nota">>

Min(a, b) == IF a < b THEN a ELSE b
Max(a, b) == IF a > b THEN a ELSE b

\* A mutation of the clamp: the upper bound only.
ClampUpperOnly(n) == Min(10, n)

\* min(10, max(1, int(match.group(1))))
ClampRating(n) == Min(10, Max(1, n))

\* `rating = None`
NoRating == -1

\* The loop over rating_patterns: the first pattern that matches sets the
\* rating and breaks; None when no pattern matches.
RECURSIVE ExtractRating(_, _)
ExtractRating(text, k) ==
    IF k > Len(rating_patterns) THEN NoRating
    ELSE LET n == Search(rating_patterns[k], text, 1) IN
         IF n # NoMatch THEN ClampRating(n) ELSE ExtractRating(text, k + 1)

\* `if rating is None: rating = 5`
DefaultRating == 5

\* parse_critic_response's return value: the rating (the other fields of the
\* returned dict are copies of the arguments).
ParseCriticResponse(text) ==
    LET r == ExtractRating(text, 1) IN
    [returned |-> TRUE,
     rating   |-> IF r = NoRating THEN DefaultRating ELSE r]

ParseResponse ==
    /\ ~parsed.returned
    /\ parsed' = ParseCriticResponse(raw_response)
    /\ UNCHANGED <<restVars, raw_response, llmVars, dbVars, apiVars, syncVars, motifVars>>

\* The raw response is any text of at most MaxLen tokens.
InitParse ==
    /\ \E n \in 0..MaxLen : raw_response \in [1..n -> InputTokens]
    /\ parsed = NotParsed
    /\ IdleLLM
    /\ IdleGen

NextParse == ParseResponse

SpecParse == InitParse /\ [][NextParse]_vars

-----------------------------------------------------------------------------
\* C3: the rating parse_critic_response returns is min(10, max(1, N)) for the
\* number N captured by the first of the patterns N/10, Puntuacion,
\* Calificacion, Nota (in that order) that matches the text, and exactly 5
\* when none matches; it is always an integer in 1..10.
\*
\* The patterns are restated here as relations on the text: a number N is
\* captured at index i by N/10 when a maximal run of digits i..e spells N and
\* "/10" follows it; by a keyword pattern when the keyword stands at i, only
\* characters of [:\s] lie between it and a maximal run of digits spelling N.
IsDigitRun(text, i, e) ==
    /\ 1 <= i /\ i <= e /\ e <= Len(text)
    /\ \A k \in i..e : text[k] \in Digits
    /\ At(text, e + 1) \notin Digits

\* The number the digits text[i..e] spell, most significant digit first.
RECURSIVE Spelled(_, _, _)
Spelled(text, i, e) ==
    IF i > e THEN 0
    ELSE DigitValue(text[i]) * 10 ^ (e - i) + Spelled(text, i + 1, e)

\* The runs of digits <<s, e>> that a match of the pattern anchored at i
\* captures (at most one).
CapturedRuns(pattern, text, i) ==
    IF pattern = "slash10"
    THEN IF text[i] \notin Digits THEN {}
         ELSE {<<i, e>> : e \in {e \in i..(Len(text) - 3) :
                                   /\ IsDigitRun(text, i, e)
                                   /\ <<text[e + 1], text[e + 2], text[e + 3]>>
                                         = <<"/", "1", "0">>}}
    ELSE IF text[i] # pattern THEN {}
         ELSE {r \in ((i + 1)..Len(text)) \X ((i + 1)..Len(text)) :
                 /\ \A k \in (i + 1)..(r[1] - 1) : text[k] = ":"
                 /\ IsDigitRun(text, r[1], r[2])}

\* The indexes at which the pattern matches.
MatchPositions(pattern, text) ==
    {i \in 1..Len(text) : CapturedRuns(pattern, text, i) # {}}

PatternMatches(pattern, text) == MatchPositions(pattern, text) # {}

Least(S) == CHOOSE x \in S : \A y \in S : x <= y

\* The number captured by the leftmost match of the pattern.
LeftmostCapture(pattern, text) ==
    LET i == Least(MatchPositions(pattern, text))
        r == CHOOSE r \in CapturedRuns(pattern, text, i) : TRUE
    IN  Spelled(text, r[1], r[2])

PatternOrder == <<"slash10", "Puntuacion", "Calificacion", "Nota">>

-----------------------------------------------------------------------------
(***************************************************************************)
(* api/main.py: the generation endpoints and the character endpoints.      *)
(*                                                                         *)
(* The characters of these specifications carry no motifs, as created by   *)
(* init_database and by create_character, so building the prompt records   *)
(* nothing in character_motif_history.                                     *)
(*                                                                         *)
(* The handlers are coroutines on one event loop and the database calls    *)
(* are synchronous, so a handler runs atomically from one await to the     *)
(* next.  The only awaits of the generation handlers are the LLM calls     *)
(* inside generate_critic; an action is the code between two of them.      *)
(***************************************************************************)

\* What clients send: provider ids and character names or ids that exist,
\* and one of each that does not.
TmdbInputs      == {"tmdb_1", "tmdb_2", "tmdb_404"}
CharacterNames  == {"Marco Aurelio", "Rosario Costras", "Nadie"}
CharacterIds    == {"marco_aurelio", "rosario_costras", "nadie"}

\* The texts an endpoint answers with.
ResponseTexts == {<<"7", "/", "1", "0">>, <<"/">>}

Range(seq) == {seq[i] : i \in 1..Len(seq)}

CriticsOf(table, media_id, character_id) ==
    {c \in table : c.media_id = media_id /\ c.character_id = character_id}

\* A mutation of the DELETE: nothing is deleted before the insert.
DeleteNothing(table, media_id, character_id) == table

\* DELETE FROM critics WHERE media_id = ? AND character_id = ?
DeleteCritics(table, media_id, character_id) ==
    table \ CriticsOf(table, media_id, character_id)

\* The foreign keys of table critics (PRAGMA foreign_keys = ON): the media
\* row and the character row of an inserted critique must exist.
ForeignKeysHold(media_id, character_id) ==
    /\ \E m \in media : m.id = media_id
    /\ \E c \in characters : c.id = character_id

CriticRow(id, media_id, character_id, rating) ==
    [id |-> id, media_id |-> media_id, character_id |-> character_id,
     rating |-> rating]

\* The response of a handler: its status and, for the character endpoints,
\* the id of the path and the count the message of delete_character reports.
Op(kind, status) == [NoOp EXCEPT !.kind = kind, !.status = status]

CharacterOp(kind, character_id, status) ==
    [Op(kind, status) EXCEPT !.target = character_id]

\* generate_critic_for_media up to its await of generate_critic: the two
\* validations.
SingleStart(r, tmdb_id, character) ==
    LET character_row == {c \in characters : c.name = character /\ c.active}
        media_row     == {m \in media : m.tmdb_id = tmdb_id}
        answer(code)  == [IdleReq EXCEPT !.pc = "done", !.status = code]
    IN
    /\ reqs[r].pc \in {"idle", "done"}
    /\ IF character_row = {}
       THEN /\ reqs' = [reqs EXCEPT ![r] = answer(400)]
            /\ lastOp' = Op("generate_critic_for_media", 400)
            /\ UNCHANGED generation_stats
       ELSE IF media_row = {}
       THEN /\ reqs' = [reqs EXCEPT ![r] = answer(404)]
            /\ lastOp' = Op("generate_critic_for_media", 404)
            /\ UNCHANGED generation_stats
       ELSE /\ generation_stats.total_requests < MaxCalls
            /\ generation_stats' = StatsAtCall(generation_stats)
            /\ reqs' = [reqs EXCEPT ![r] =
                 [IdleReq EXCEPT
                    !.pc = "awaiting", !.tmdb_id = tmdb_id,
                    !.character = character,
                    !.media_id = (CHOOSE m \in media_row : TRUE).id,
                    !.overlap = \E o \in Requests \ {r} :
                                   /\ reqs[o].pc = "awaiting"
                                   /\ reqs[o].tmdb_id = tmdb_id
                                   /\ reqs[o].character = character]]
            /\ lastOp' = Op("await_generate_critic", 0)
    /\ UNCHANGED <<restVars, dbVars, cart, deleted, llmConfig, llmCall, parseVars,
                   syncVars, motifVars>>

\* generate_critic_for_media from the return of generate_critic to the
\* response: parse, look the character up again, delete the pair's critique,
\* insert the new one.
SingleFinish(r, force, outcome, text) ==
    LET req    == reqs[r]
        result == GenerateCriticResult(llmConfig, force, outcome)
        parsed_critic == ParseCriticResponse(text)
        character_row == {c \in characters : c.name = req.character}
        answer(code)  == [IdleReq EXCEPT !.pc = "done", !.status = code]
    IN
    /\ req.pc = "awaiting"
    /\ generation_stats' = StatsAtReturn(generation_stats, result)
    /\ IF ~result.success
       THEN /\ reqs' = [reqs EXCEPT ![r] = answer(503)]
            /\ lastOp' = Op("generate_critic_for_media", 503)
            /\ UNCHANGED <<critics, nextCriticId>>
       ELSE IF character_row = {}
       THEN /\ reqs' = [reqs EXCEPT ![r] = answer(404)]
            /\ lastOp' = Op("generate_critic_for_media", 404)
            /\ UNCHANGED <<critics, nextCriticId>>
       ELSE LET character_id == (CHOOSE c \in character_row : TRUE).id
                kept == DeleteCritics(critics, req.media_id, character_id)
            IN  IF ForeignKeysHold(req.media_id, character_id)
                THEN /\ critics' = kept \cup
                           {CriticRow(nextCriticId, req.media_id, character_id,
                                      parsed_critic.rating)}
                     /\ nextCriticId' = nextCriticId + 1
                     /\ reqs' = [reqs EXCEPT ![r] =
                           [req EXCEPT !.pc = "done", !.status = 200,
                                       !.critic_id = nextCriticId,
                                       !.character_id = character_id]]
                     /\ lastOp' = Op("generate_critic_for_media", 200)
                ELSE \* the DELETE is committed, the INSERT raises: 500
                     /\ critics' = kept
                     /\ reqs' = [reqs EXCEPT ![r] = answer(500)]
                     /\ lastOp' = Op("generate_critic_for_media", 500)
                     /\ UNCHANGED nextCriticId
    /\ UNCHANGED <<restVars, characters, media, cart, deleted, llmConfig, llmCall,
                   parseVars,
                   syncVars, motifVars>>

\* The validation of generate_cart_batch_critics with the media check left
\* out.
CartValidateCriticsOnly(media_items, selected_critics, valid_critics, valid_media) ==
    IF media_items = <<>> THEN 400
    ELSE IF selected_critics = <<>> THEN 400
    ELSE IF Cardinality(valid_critics) # Len(selected_critics) THEN 400
    ELSE 200

\* The validation of generate_cart_batch_critics: the status it answers
\* with, 200 standing for "goes on".  valid_critics and valid_media are the
\* rows the two SELECT ... IN (...) queries return.
CartValidate(media_items, selected_critics, valid_critics, valid_media) ==
    IF media_items = <<>> THEN 400
    ELSE IF selected_critics = <<>> THEN 400
    ELSE IF Cardinality(valid_critics) # Len(selected_critics) THEN 400
    ELSE IF Cardinality(valid_media) # Len(media_items) THEN 400
    ELSE 200

\* The rating the cart batch stores with every critique.
CartRating == 8

\* The combination the two nested loops are at: position k of
\* media_items x selected_critics, counted from 0.
CartPair(c) ==
    LET tmdb_id   == c.media_items[(c.k \div Len(c.selected_critics)) + 1]
        critic_id == c.selected_critics[(c.k % Len(c.selected_critics)) + 1]
    IN  [tmdb_id     |-> tmdb_id,
         critic_id   |-> critic_id,
         media_info  |-> {m \in c.media_dict : m.tmdb_id = tmdb_id},
         critic_name |-> {x \in c.critic_dict : x.id = critic_id}]

CartResult(tmdb_id, critic, status) ==
    [tmdb_id |-> tmdb_id, critic |-> critic, status |-> status]

\* The nested loops from position c.k up to the next await of
\* generate_critic, or to the response.
RECURSIVE CartScan(_, _)
CartScan(c, table) ==
    IF c.k >= Len(c.media_items) * Len(c.selected_critics)
    THEN [c EXCEPT !.pc = "done", !.status = 200]
    ELSE LET pair == CartPair(c) IN
         IF pair.media_info = {} \/ pair.critic_name = {}
         THEN CartScan([c EXCEPT !.k = @ + 1], table)
         ELSE LET media_id == (CHOOSE m \in pair.media_info : TRUE).id
                  name     == (CHOOSE x \in pair.critic_name : TRUE).name
              IN  IF CriticsOf(table, media_id, pair.critic_id) # {}
                  THEN CartScan(
                         [c EXCEPT !.k = @ + 1,
                                   !.results = Append(@,
                                      CartResult(pair.tmdb_id, name, "skipped"))],
                         table)
                  ELSE [c EXCEPT !.pc = "awaiting",
                                 !.generated = Append(@,
                                      <<pair.tmdb_id, pair.critic_id>>)]

\* The statistics after the loops went on to scanned: a generate_critic call
\* was made if they stopped at an await.
CartCall(scanned) ==
    IF scanned.pc = "awaiting"
    THEN /\ generation_stats.total_requests < MaxCalls
         /\ generation_stats' = StatsAtCall(generation_stats)
    ELSE UNCHANGED generation_stats

\* generate_cart_batch_critics up to its first await or, when there is none,
\* to its response.
CartStart(media_items, selected_critics) ==
    LET valid_critics == {c \in characters : c.id \in Range(selected_critics)}
        valid_media   == {m \in media : m.tmdb_id \in Range(media_items)}
        status  == CartValidate(media_items, selected_critics,
                                valid_critics, valid_media)
        request == [IdleCart EXCEPT
                      !.media_items = media_items,
                      !.selected_critics = selected_critics,
                      !.all_exist =
                         /\ \A t \in Range(media_items) :
                               \E m \in media : m.tmdb_id = t
                         /\ \A i \in Range(selected_critics) :
                               \E c \in characters : c.id = i]
        scanned == CartScan(
                     [request EXCEPT
                        !.media_dict  = {[tmdb_id |-> m.tmdb_id, id |-> m.id] :
                                            m \in valid_media},
                        !.critic_dict = {[id |-> c.id, name |-> c.name] :
                                            c \in valid_critics}],
                     critics)
    IN
    /\ cart.pc = "idle"
    /\ IF status # 200
       THEN /\ cart' = [request EXCEPT !.pc = "done", !.status = status]
            /\ UNCHANGED generation_stats
       ELSE /\ cart' = scanned
            /\ CartCall(scanned)
    /\ lastOp' = Op("generate_cart_batch_critics", cart'.status)
    /\ UNCHANGED <<restVars, dbVars, reqs, deleted, llmConfig, llmCall, parseVars,
                   syncVars, motifVars>>

\* generate_cart_batch_critics from the return of a generate_critic call to
\* the next await or to the response.  The result's success is not looked
\* at; a failed INSERT is caught and reported as "error".
CartFinish(outcome) ==
    LET result   == GenerateCriticResult(llmConfig, None, outcome)
        pair     == CartPair(cart)
        media_id == (CHOOSE m \in pair.media_info : TRUE).id
        name     == (CHOOSE x \in pair.critic_name : TRUE).name
        inserted == ForeignKeysHold(media_id, pair.critic_id)
        table    == IF inserted
                    THEN critics \cup {CriticRow(nextCriticId, media_id,
                                                 pair.critic_id, CartRating)}
                    ELSE critics
        scanned  == CartScan(
                      [cart EXCEPT
                         !.k = @ + 1,
                         !.processed = @ + (IF inserted THEN 1 ELSE 0),
                         !.results = Append(@,
                            CartResult(pair.tmdb_id, name,
                                       IF inserted THEN "success" ELSE "error"))],
                      table)
    IN
    /\ cart.pc = "awaiting"
    /\ critics' = table
    /\ nextCriticId' = nextCriticId + (IF inserted THEN 1 ELSE 0)
    /\ cart' = scanned
    /\ IF scanned.pc = "awaiting"
       THEN /\ generation_stats.total_requests < MaxCalls
            /\ generation_stats' =
                  StatsAtCall(StatsAtReturn(generation_stats, result))
       ELSE generation_stats' = StatsAtReturn(generation_stats, result)
    /\ lastOp' = Op("generate_cart_batch_critics", scanned.status)
    /\ UNCHANGED <<restVars, characters, media, reqs, deleted, llmConfig, llmCall,
                   parseVars,
                   syncVars, motifVars>>

\* The id create_character derives from a name: lower case, spaces to
\* underscores, accents and other characters dropped.
Slug(name) ==
    CASE name = "Marco Aurelio"   -> "marco_aurelio"
      [] name = "Rosario Costras" -> "rosario_costras"
      [] name = "Nadie"           -> "nadie"

\* f"{base_id}_{counter}"
Suffixed(base_id, counter) ==
    CASE base_id = "marco_aurelio"   ->
            (IF counter = 1 THEN "marco_aurelio_1"   ELSE "marco_aurelio_2")
      [] base_id = "rosario_costras" ->
            (IF counter = 1 THEN "rosario_costras_1" ELSE "rosario_costras_2")
      [] base_id = "nadie"           ->
            (IF counter = 1 THEN "nadie_1"           ELSE "nadie_2")

\* The loop of create_character that makes the id unique.
RECURSIVE UniqueId(_, _, _)
UniqueId(character_id, base_id, counter) ==
    IF \E c \in characters : c.id = character_id
    THEN UniqueId(Suffixed(base_id, counter), base_id, counter + 1)
    ELSE character_id

\* POST /api/characters
CreateCharacter(name) ==
    /\ IF name = ""
       THEN /\ lastOp' = Op("create_character", 400)
            /\ UNCHANGED <<characters, deleted>>
       ELSE IF \E c \in characters : c.name = name
       THEN /\ lastOp' = Op("create_character", 409)
            /\ UNCHANGED <<characters, deleted>>
       ELSE LET character_id == UniqueId(Slug(name), Slug(name), 1) IN
            /\ characters' = characters \cup
                  {[id |-> character_id, name |-> name, active |-> TRUE]}
            /\ deleted' = deleted \ {character_id}
            /\ lastOp' = Op("create_character", 200)
    /\ UNCHANGED <<restVars, media, critics, nextCriticId, reqs, cart, llmVars, parseVars,
                   syncVars, motifVars>>

\* PUT /api/characters/{character_id}
UpdateCharacter(character_id, name) ==
    /\ IF ~\E c \in characters : c.id = character_id
       THEN /\ lastOp' = CharacterOp("update_character", character_id, 404)
            /\ UNCHANGED characters
       ELSE IF name = ""
       THEN /\ lastOp' = CharacterOp("update_character", character_id, 400)
            /\ UNCHANGED characters
       ELSE IF \E c \in characters : c.name = name /\ c.id # character_id
       THEN /\ lastOp' = CharacterOp("update_character", character_id, 409)
            /\ UNCHANGED characters
       ELSE /\ characters' =
                 {IF c.id = character_id THEN [c EXCEPT !.name = name] ELSE c :
                     c \in characters}
            /\ lastOp' = CharacterOp("update_character", character_id, 200)
    /\ UNCHANGED <<restVars, media, critics, nextCriticId, reqs, cart, deleted, llmVars,
                   parseVars,
                   syncVars, motifVars>>

\* A mutation of the first DELETE of delete_character: the critiques stay.
KeepCritics(table, character_id) == table

\* DELETE FROM critics WHERE character_id = ?
DeleteCriticsOfCharacter(table, character_id) ==
    {x \in table : x.character_id # character_id}

\* DELETE /api/characters/{character_id}
DeleteCharacter(character_id) ==
    LET character     == {c \in characters : c.id = character_id}
        critics_count == Cardinality({x \in critics :
                                         x.character_id = character_id})
    IN
    /\ IF character = {}
       THEN /\ lastOp' = CharacterOp("delete_character", character_id, 404)
            /\ UNCHANGED <<characters, critics, deleted>>
       ELSE /\ critics' = DeleteCriticsOfCharacter(critics, character_id)
            /\ characters' = characters \ character
            /\ deleted' = deleted \cup {character_id}
            /\ lastOp' = [CharacterOp("delete_character", character_id, 200) EXCEPT
                            !.count = critics_count]
    /\ UNCHANGED <<restVars, media, nextCriticId, reqs, cart, llmVars, parseVars,
                   syncVars, motifVars>>

-----------------------------------------------------------------------------
(***************************************************************************)
(* SpecGen: single-item generation requests next to character deletion.    *)
(* SpecCart: one cart batch next to character deletion, over a critics     *)
(* table that earlier generations have filled.                             *)
(***************************************************************************)
NameInputs == CharacterNames \cup {""}

CartLists(S) == UNION {[1..n -> S] : n \in 0..MaxCartLen}

OllamaAnswers == [{"ollama_primary", "ollama_secondary"} -> OllamaOutcomes]

SingleStartCall ==
    \E r \in Requests : \E tmdb_id \in TmdbInputs : \E name \in CharacterNames :
        SingleStart(r, tmdb_id, name)

SingleFinishCall ==
    \E r \in Requests : \E force \in ForceValues :
    \E outcome \in OllamaAnswers : \E text \in ResponseTexts :
        SingleFinish(r, force, outcome, text)

CartStartCall ==
    \E media_items \in CartLists(TmdbInputs) :
    \E selected_critics \in CartLists(CharacterIds) :
        CartStart(media_items, selected_critics)

CartFinishCall == \E outcome \in OllamaAnswers : CartFinish(outcome)

CreateCharacterCall == \E name \in NameInputs : CreateCharacter(name)

UpdateCharacterCall ==
    \E id \in CharacterIds : \E name \in NameInputs : UpdateCharacter(id, name)

DeleteCharacterCall == \E id \in CharacterIds : DeleteCharacter(id)

InitGen ==
    /\ llmConfig = DefaultConfig
    /\ generation_stats = InitStats
    /\ llmCall = NoCall
    /\ IdleParse
    /\ IdleGen

NextGen ==
    \/ SingleStartCall
    \/ SingleFinishCall
    \/ DeleteCharacterCall

SpecGen == InitGen /\ [][NextGen]_vars

\* Critiques that earlier generations have left.
EarlierCritics ==
    {CriticRow(1, 1, "marco_aurelio", 7), CriticRow(2, 2, "rosario_costras", 5)}

InitCart ==
    /\ IdleLLM
    /\ IdleParse
    /\ IdleSync
    /\ IdleRest
    /\ IdleMotif
    /\ characters = SeedCharacters
    /\ media = SeedMedia
    /\ MediaUnique(media)
    /\ critics \in SUBSET EarlierCritics
    /\ nextCriticId = Cardinality(EarlierCritics) + 1
    /\ reqs = [r \in Requests |-> IdleReq]
    /\ cart = IdleCart
    /\ lastOp = NoOp
    /\ deleted = {}

NextCart ==
    \/ CartStartCall
    \/ CartFinishCall
    \/ DeleteCharacterCall

SpecCart == InitCart /\ [][NextCart]_vars

-----------------------------------------------------------------------------
\* The step in which request r returns from generate_critic and answers 200.
SingleCompletes(r) ==
    /\ reqs[r].pc = "awaiting"
    /\ reqs'[r].pc = "done"
    /\ reqs'[r].status = 200

\* C1: whenever a single-item generation call completes successfully, also
\* when its LLM wait overlapped the wait of another call for the same media
\* item and character, the critics table holds right after that step exactly
\* one row for the pair, and it is the row this call has just written.
C1_SingleItemReplacesRow ==
    [][\A r \in Requests :
          SingleCompletes(r) =>
             LET rows == CriticsOf(critics', reqs'[r].media_id,
                                   reqs'[r].character_id)
             IN  /\ Cardinality(rows) = 1
                 /\ \A x \in rows : /\ x.id = reqs'[r].critic_id
                                    /\ \A y \in critics : y.id # x.id]_vars

\* Two calls for one pair whose waits overlapped have both completed
\* successfully; the pair has one row, the one of the call that finished
\* last.
C1_Witness ==
    \E r, o \in Requests :
        /\ r # o
        /\ reqs[r].pc = "done" /\ reqs[r].status = 200 /\ reqs[r].overlap
        /\ reqs[o].pc = "done" /\ reqs[o].status = 200
        /\ reqs[o].media_id = reqs[r].media_id
        /\ reqs[o].character_id = reqs[r].character_id
        /\ reqs[o].critic_id < reqs[r].critic_id
        /\ CriticsOf(critics, reqs[r].media_id, reqs[r].character_id) =
              {x \in critics : x.id = reqs[r].critic_id}
        /\ Cardinality(CriticsOf(critics, reqs[r].media_id,
                                 reqs[r].character_id)) = 1

-----------------------------------------------------------------------------
\* A cart request naming a media provider id or a character id that is not
\* stored.
CartNamesAbsentId ==
    /\ cart.pc # "idle"
    /\ cart.media_items # <<>>
    /\ cart.selected_critics # <<>>
    /\ ~cart.all_exist

CartSkipped == {i \in 1..Len(cart.results) : cart.results[i].status = "skipped"}

\* C5: a cart-batch request whose media provider ids and character ids all
\* exist, repeated ids included, is not rejected, and when it has answered
\* every one of its len(media_items) x len(selected_critics) combinations
\* was either handed to generate_critic once or reported as skipped.
C5_CartAcceptsStoredIds ==
    (/\ cart.pc # "idle"
     /\ cart.media_items # <<>>
     /\ cart.selected_critics # <<>>
     /\ cart.all_exist)
    => /\ cart.status # 400
       /\ cart.pc = "done" =>
             Len(cart.generated) + Cardinality(CartSkipped) =
                Len(cart.media_items) * Len(cart.selected_critics)

-----------------------------------------------------------------------------
(***************************************************************************)
(* SpecChar: the character endpoints over a critics table that earlier     *)
(* generations have filled.                                                *)
(***************************************************************************)
InitChar ==
    /\ IdleLLM
    /\ IdleParse
    /\ IdleSync
    /\ IdleRest
    /\ IdleMotif
    /\ characters = SeedCharacters
    /\ media = SeedMedia
    /\ critics \in SUBSET (EarlierCritics \cup
                             {CriticRow(3, 2, "marco_aurelio", 10)})
    /\ nextCriticId = Cardinality(EarlierCritics) + 2
    /\ reqs = [r \in Requests |-> IdleReq]
    /\ cart = IdleCart
    /\ lastOp = NoOp
    /\ deleted = {}

NextChar ==
    \/ CreateCharacterCall
    \/ UpdateCharacterCall
    \/ DeleteCharacterCall

SpecChar == InitChar /\ [][NextChar]_vars

\* C9: deleting an existing character removes the character and every
\* critique of that character, reports the number of critiques removed and
\* leaves the other characters and their critiques as they were; as long as
\* the id is not created again, an update or a delete of it answers 404.
C9_DeleteCharacter ==
    [][\A id \in CharacterIds :
         /\ (DeleteCharacter(id) /\ \E c \in characters : c.id = id) =>
               /\ lastOp'.status = 200
               /\ lastOp'.count =
                     Cardinality({x \in critics : x.character_id = id})
               /\ characters' = {c \in characters : c.id # id}
               /\ critics' = {x \in critics : x.character_id # id}
         /\ (id \in deleted /\ (\/ DeleteCharacter(id)
                                \/ \E name \in NameInputs :
                                      UpdateCharacter(id, name))) =>
               /\ lastOp'.status = 404
               /\ UNCHANGED <<characters, critics>>]_vars

\* A character that had critiques was deleted while another character keeps
\* a critique, and a later update or delete of the deleted id was answered.
C9_Witness ==
    /\ lastOp.kind \in {"update_character", "delete_character"}
    /\ lastOp.target \in deleted
    /\ lastOp.status = 404
    /\ ~\E x \in critics : x.character_id = lastOp.target
    /\ \E x \in critics : x.character_id # lastOp.target
    /\ \E c \in characters : c.id # lastOp.target

-----------------------------------------------------------------------------
(***************************************************************************)
(* utils/sync_manager.py: the orchestrated library sync.                   *)
(*                                                                         *)
(* A run walks the items the Jellyfin server yields; an action is the      *)
(* processing of one item.  Of an item the title and the two ids are       *)
(* followed, of a media row also its update timestamp.                     *)
(***************************************************************************)

\* What the Jellyfin server can hold: per item id a TMDB provider id, or
\* none, and a name.
JellyfinItems ==
    [Id : {"jf_1", "jf_3"}, Tmdb : {None, "tmdb_1", "tmdb_3"}, Name : {"A", "B"}]

\* Item ids are unique on the server: a library holds at most one item per
\* id.
ItemsWithId(id) == {{}} \cup {{x} : x \in {y \in JellyfinItems : y.Id = id}}

Libraries == {a \cup b : a \in ItemsWithId("jf_1"), b \in ItemsWithId("jf_3")}

\* jellyfin_client.extract_media_info
ExtractMediaInfo(jellyfin_item) ==
    [jellyfin_id |-> jellyfin_item.Id,
     tmdb_id     |-> jellyfin_item.Tmdb,
     title       |-> jellyfin_item.Name]

\* A mutation of the first test of _upsert_media_item: no item is skipped
\* for its missing provider id.
NeverSkipped(media_info) == FALSE

\* not media_info.get('tmdb_id')
HasNoProviderId(media_info) == media_info.tmdb_id = None

\* A mutation of the UPDATE: the title column is left out.
UpdatedRowKeepsTitle(row, media_info, now) ==
    [row EXCEPT !.tmdb_id = media_info.tmdb_id, !.updated_at = now]

\* UPDATE media SET tmdb_id = ?, ..., title = ?, ..., updated_at = ?
UpdatedRow(row, media_info, now) ==
    [row EXCEPT !.tmdb_id = media_info.tmdb_id, !.title = media_info.title,
                !.updated_at = now]

NextMediaId(table) ==
    IF table = {} THEN 1
    ELSE (CHOOSE m \in table : \A n \in table : n.id <= m.id).id + 1

Upserted(was_inserted, was_updated, raised, table) ==
    [was_inserted |-> was_inserted, was_updated |-> was_updated,
     raised |-> raised, table |-> table]

\* A mutation of the second SELECT: no row is found under the provider id.
NeverImported(media_info, table) == FALSE

\* SELECT id FROM media WHERE tmdb_id = ?: the item is already stored under
\* another jellyfin_id.
AlreadyImported(media_info, table) ==
    \E m \in table : m.tmdb_id = media_info.tmdb_id

\* SyncManager._upsert_media_item: what it returns or that it raises
\* DatabaseError, and the media table it leaves.
UpsertMediaItem(media_info, table, now) ==
    LET existing  == {m \in table : m.jellyfin_id = media_info.jellyfin_id}
        updated   == {IF m \in existing THEN UpdatedRow(m, media_info, now)
                      ELSE m : m \in table}
    IN  IF HasNoProviderId(media_info)
        THEN Upserted(FALSE, FALSE, FALSE, table)
        ELSE IF existing = {} /\ AlreadyImported(media_info, table)
        THEN Upserted(FALSE, FALSE, FALSE, table)
        ELSE IF existing # {}
        THEN IF MediaUnique(updated)
             THEN Upserted(FALSE, TRUE, FALSE, updated)
             ELSE Upserted(FALSE, FALSE, TRUE, table)
        ELSE Upserted(TRUE, FALSE, FALSE,
                      table \cup {MediaRow(NextMediaId(table),
                                           media_info.jellyfin_id,
                                           media_info.tmdb_id,
                                           media_info.title, now)})

\* sync_jellyfin_library up to the first item: the counters start at 0.
SyncStart ==
    /\ sync.pc \in {"idle", "done"}
    /\ sync.runs < MaxRuns
    /\ sync' = [sync EXCEPT !.pc = "running", !.items = library,
                            !.pending = library, !.log = {},
                            !.processed = 0, !.added = 0, !.updated = 0,
                            !.unchanged = 0, !.errors = 0,
                            !.status = "started", !.runs = @ + 1]
    /\ UNCHANGED <<restVars, library, llmVars, parseVars, dbVars, apiVars, motifVars>>

\* A mutation of the loop: an item whose processing raised is counted as
\* unchanged.
CountedNeverError(result) ==
    IF result.was_inserted THEN "added"
    ELSE IF result.was_updated THEN "updated"
    ELSE "unchanged"

\* How the loop counted an item.
Counted(result) ==
    IF result.raised THEN "error"
    ELSE IF result.was_inserted THEN "added"
    ELSE IF result.was_updated THEN "updated"
    ELSE "unchanged"

\* The body of the loop of sync_jellyfin_library for one item.
SyncItem(item) ==
    LET media_info == ExtractMediaInfo(item)
        now        == sync.now + 1
        result     == UpsertMediaItem(media_info, media, now)
        counted    == Counted(result)
        existing   == {m \in media : m.jellyfin_id = media_info.jellyfin_id}
        bump(c)    == IF counted = c THEN 1 ELSE 0
    IN
    /\ sync.pc = "running"
    /\ item \in sync.pending
    /\ media' = result.table
    /\ sync' = [sync EXCEPT
                  !.pending   = @ \ {item},
                  !.now       = now,
                  !.log       = @ \cup
                     {[jellyfin_id |-> media_info.jellyfin_id,
                       counted     |-> counted,
                       old_title   |-> IF existing = {} THEN None
                                       ELSE (CHOOSE m \in existing : TRUE).title]},
                  !.processed = @ + (IF result.raised THEN 0 ELSE 1),
                  !.added     = @ + bump("added"),
                  !.updated   = @ + bump("updated"),
                  !.unchanged = @ + bump("unchanged"),
                  !.errors    = @ + bump("error")]
    /\ UNCHANGED <<restVars, library, characters, critics, nextCriticId, llmVars,
                   parseVars, apiVars, motifVars>>

\* sync_jellyfin_library after the last item: the results summary.
SyncFinish ==
    /\ sync.pc = "running"
    /\ sync.pending = {}
    /\ sync' = [sync EXCEPT
                  !.pc = "done",
                  !.status = IF sync.errors = 0 THEN "completed"
                             ELSE "completed_with_errors"]
    /\ UNCHANGED <<restVars, library, llmVars, parseVars, dbVars, apiVars, motifVars>>

\* Between two runs an item is added to the Jellyfin server, removed from it
\* or edited on it.
LibraryChange(L) ==
    /\ sync.pc # "running"
    /\ L # library
    /\ \E id \in {x.Id : x \in L \cup library} :
          {x \in L : x.Id # id} = {x \in library : x.Id # id}
    /\ library' = L
    /\ UNCHANGED <<restVars, sync, llmVars, parseVars, dbVars, apiVars, motifVars>>

SyncItemStep == \E item \in JellyfinItems : SyncItem(item)

LibraryChangeStep == \E L \in Libraries : LibraryChange(L)

InitSync ==
    /\ IdleLLM
    /\ IdleParse
    /\ IdleGen

NextSync ==
    \/ SyncStart
    \/ SyncItemStep
    \/ SyncFinish
    \/ LibraryChangeStep

SpecSync == InitSync /\ [][NextSync]_vars

-----------------------------------------------------------------------------
\* The media row stored under the item's Jellyfin id, if any.
RowOf(item) == {m \in media : m.jellyfin_id = item.Id}

\* C6: an item that has a media row under its Jellyfin id and whose payload
\* equals the stored row is counted as unchanged, not as updated, and the
\* media table is left as it was, update timestamps included.
C6_IdenticalPayloadUnchanged ==
    [][\A item \in JellyfinItems :
          (/\ SyncItem(item)
           /\ \E m \in RowOf(item) : /\ m.tmdb_id = item.Tmdb
                                     /\ m.title = item.Name)
          => /\ sync'.unchanged = sync.unchanged + 1
             /\ sync'.updated = sync.updated
             /\ media' = media]_vars

\* C7: an item stored under its Jellyfin id whose title, and nothing else,
\* changed on the server is counted as updated, and its row holds the new
\* title after that step and when the run has finished; an item whose
\* Jellyfin id and TMDB id are both not stored is counted as added and the
\* table gains exactly one row, the item's.
C7_UpdatedAndAdded ==
    [][/\ \A item \in JellyfinItems :
            SyncItem(item) =>
               /\ (\E m \in RowOf(item) : /\ m.tmdb_id = item.Tmdb
                                          /\ m.title # item.Name)
                  => /\ sync'.updated = sync.updated + 1
                     /\ sync'.added = sync.added
                     /\ Cardinality(media') = Cardinality(media)
                     /\ \A m \in media' :
                           m.jellyfin_id = item.Id => m.title = item.Name
               /\ (/\ item.Tmdb # None
                   /\ RowOf(item) = {}
                   /\ ~\E m \in media : m.tmdb_id = item.Tmdb)
                  => /\ sync'.added = sync.added + 1
                     /\ sync'.updated = sync.updated
                     /\ media \subseteq media'
                     /\ Cardinality(media') = Cardinality(media) + 1
                     /\ \A m \in media' \ media :
                           /\ m.jellyfin_id = item.Id
                           /\ m.tmdb_id = item.Tmdb
                           /\ m.title = item.Name
       /\ (sync.pc = "running" /\ sync'.pc = "done") =>
             \A item \in sync'.items : \A m \in media' :
                (m.jellyfin_id = item.Id /\ m.tmdb_id = item.Tmdb)
                   => m.title = item.Name]_vars

\* A run has finished in which one item was updated to a new title and
\* another item was added.
C7_Witness ==
    /\ sync.pc = "done"
    /\ \E item \in sync.items : \E e \in sync.log :
          /\ e.jellyfin_id = item.Id
          /\ e.counted = "updated"
          /\ e.old_title # item.Name
          /\ \E m \in RowOf(item) : m.title = item.Name
    /\ \E item \in sync.items : \E e \in sync.log :
          /\ e.jellyfin_id = item.Id
          /\ e.counted = "added"
          /\ e.old_title = None
          /\ Cardinality(RowOf(item)) = 1

\* C8: in every run, an item the server yields without a TMDB id leaves the
\* media table as it is and is counted neither as added nor as updated.
C8_NoProviderIdSkipped ==
    [][\A item \in JellyfinItems :
          (SyncItem(item) /\ item.Tmdb = None)
          => /\ media' = media
             /\ sync'.added = sync.added
             /\ sync'.updated = sync.updated
             /\ sync'.unchanged = sync.unchanged + 1]_vars

\* In a second run an item without a TMDB id was skipped although a row is
\* stored under its Jellyfin id, and an item without a TMDB id and without a
\* row has left no row.
C8_Witness ==
    /\ sync.runs = MaxRuns
    /\ \E item \in sync.items : \E e \in sync.log :
          /\ item.Tmdb = None
          /\ e.jellyfin_id = item.Id
          /\ e.counted = "unchanged"
          /\ \E m \in RowOf(item) : m.tmdb_id # None
    /\ \E item \in sync.items : \E e \in sync.log :
          /\ item.Tmdb = None
          /\ e.jellyfin_id = item.Id
          /\ e.counted = "unchanged"
          /\ RowOf(item) = {}

-----------------------------------------------------------------------------
(***************************************************************************)
(* api/llm_manager.py: the variation pack and the motif history.           *)
(*                                                                         *)
(* used_at is CURRENT_TIMESTAMP, whole seconds: the rows of one call share *)
(* their used_at, and ORDER BY used_at DESC LIMIT n may return any n rows  *)
(* that no row left out is newer than.  A motif list is followed as the    *)
(* set of its motifs.                                                      *)
(***************************************************************************)
RecentLimit  == 15    \* _get_recent_motifs(character_id, limit=15)
HistoryLimit == 100   \* rows _record_motif_usage keeps per character
PackSize     == 3     \* min(3, len(available))
FewAvailable == 2     \* len(available) < 2

MotifUniverse == {"virtud", "deber", "razon", "destino"}

MotifOrder == <<"virtud", "deber", "razon", "destino">>

\* The motif lists a character has: none, or some of the motifs.
MotifLists ==
    {{}, {"virtud", "deber"}, {"razon", "destino"},
     {"virtud", "deber", "razon"}, MotifUniverse}

HistoryRow(character_id, motif, used_at) ==
    [character_id |-> character_id, motif |-> motif, used_at |-> used_at]

\* The positions of the character's rows.
RowsOfCharacter(history, character_id) ==
    {i \in 1..Len(history) : history[i].character_id = character_id}

\* ORDER BY used_at DESC LIMIT limit over the rows at positions idx: the
\* sets of positions the query may return.
NewestRows(history, idx, limit) ==
    IF Cardinality(idx) <= limit THEN {idx}
    ELSE LET newer(t) == {i \in idx : history[i].used_at > t}
             since(t) == {i \in idx : history[i].used_at >= t}
             cut == CHOOSE t \in {history[i].used_at : i \in idx} :
                       /\ Cardinality(newer(t)) < limit
                       /\ Cardinality(since(t)) >= limit
             ties == since(cut) \ newer(cut)
         IN  {newer(cut) \cup S :
                 S \in {X \in SUBSET ties :
                           Cardinality(X) = limit - Cardinality(newer(cut))}}

\* A mutation of the reset: every motif is always available.
AvailableAlwaysAll(motifs, recent) == motifs

\* available = [m for m in motifs if m not in recent], reset to motifs when
\* fewer than 2 are left.
Available(motifs, recent) ==
    LET fresh == motifs \ recent IN
    IF Cardinality(fresh) < FewAvailable THEN motifs ELSE fresh

\* random.sample(available, count)
Samples(available) ==
    {X \in SUBSET available :
        Cardinality(X) = Min(PackSize, Cardinality(available))}

\* The rows the INSERTs of _record_motif_usage append.
RECURSIVE Inserted(_, _, _, _)
Inserted(character_id, selected, used_at, k) ==
    IF k > Len(MotifOrder) THEN <<>>
    ELSE (IF MotifOrder[k] \in selected
          THEN <<HistoryRow(character_id, MotifOrder[k], used_at)>>
          ELSE <<>>) \o Inserted(character_id, selected, used_at, k + 1)

RECURSIVE KeepRows(_, _, _)
KeepRows(history, drop, k) ==
    IF k > Len(history) THEN <<>>
    ELSE (IF k \in drop THEN <<>> ELSE <<history[k]>>)
         \o KeepRows(history, drop, k + 1)

\* A mutation of _record_motif_usage: the rows are inserted and nothing is
\* deleted.
RecordedUnpruned(history, character_id, selected, used_at) ==
    IF selected = {} THEN {history}
    ELSE {history \o Inserted(character_id, selected, used_at, 1)}

\* The tables _record_motif_usage may leave: the rows inserted, the
\* character's history pruned to its newest HistoryLimit rows.
Recorded(history, character_id, selected, used_at) ==
    IF selected = {} THEN {history}
    ELSE LET grown == history \o Inserted(character_id, selected, used_at, 1)
             idx   == RowsOfCharacter(grown, character_id)
         IN  IF Cardinality(idx) <= HistoryLimit THEN {grown}
             ELSE {KeepRows(grown, idx \ keep, 1) :
                      keep \in NewestRows(grown, idx, HistoryLimit)}

LatestUse(history) ==
    IF history = <<>> THEN 0
    ELSE LET times == {history[i].used_at : i \in 1..Len(history)}
         IN  CHOOSE t \in times : \A u \in times : u <= t

\* _select_variation_pack(character_id, motifs, catchphrases), called in
\* the second now; read is what the query of _get_recent_motifs returned and
\* selected what random.sample returned.
SelectVariationPack(character_id, motifs, read, selected, now) ==
    LET recent == {motif_history[i].motif : i \in read} IN
    /\ variation.calls < MaxSelections
    /\ IF motifs = {}
       THEN /\ read = {} /\ selected = {}
            /\ variation' = [NoVariation EXCEPT !.made = TRUE,
                                !.calls = variation.calls + 1,
                                !.character_id = character_id]
            /\ UNCHANGED motif_history
       ELSE /\ read \in NewestRows(motif_history,
                                   RowsOfCharacter(motif_history, character_id),
                                   RecentLimit)
            /\ selected \in Samples(Available(motifs, recent))
            /\ motif_history' \in Recorded(motif_history, character_id,
                                           selected, now)
            /\ variation' = [made |-> TRUE, calls |-> variation.calls + 1,
                             character_id |-> character_id, motifs |-> motifs,
                             read |-> read, recent |-> recent,
                             selected |-> selected]
    /\ UNCHANGED <<restVars, llmVars, parseVars, dbVars, apiVars, syncVars>>

SelectVariationPackCall ==
    \E character_id \in {"marco_aurelio", "rosario_costras"} :
    \E motifs \in MotifLists :
    \E read \in IF motifs = {} THEN {{}}
                ELSE NewestRows(motif_history,
                                RowsOfCharacter(motif_history, character_id),
                                RecentLimit) :
    \E selected \in Samples(Available(motifs,
                        {motif_history[i].motif : i \in read})) :
    \E now \in {LatestUse(motif_history), LatestUse(motif_history) + 1} :
        SelectVariationPack(character_id, motifs, read, selected, now)

\* The history that earlier generations for Marco Aurelio have left: one
\* when his motifs were razon and destino, then n, a second apart, when they
\* were virtud and deber.
RECURSIVE EarlierHistory(_)
EarlierHistory(n) ==
    IF n = 0
    THEN Inserted("marco_aurelio", {"razon", "destino"}, 0, 1)
    ELSE EarlierHistory(n - 1)
         \o Inserted("marco_aurelio", {"virtud", "deber"}, n, 1)

InitMotif ==
    /\ IdleLLM
    /\ IdleParse
    /\ IdleSync
    /\ IdleRest
    /\ characters = SeedCharacters
    /\ media = SeedMedia
    /\ critics = {}
    /\ nextCriticId = 1
    /\ reqs = [r \in Requests |-> IdleReq]
    /\ cart = IdleCart
    /\ lastOp = NoOp
    /\ deleted = {}
    /\ motif_history \in {<<>>} \cup {EarlierHistory(n) : n \in 0..MaxEarlier}
    /\ variation = NoVariation

NextMotif == SelectVariationPackCall

SpecMotif == InitMotif /\ [][NextMotif]_vars

\* read is a possible answer of ORDER BY used_at DESC LIMIT RecentLimit over
\* the character's rows of history.
IsMostRecent(history, character_id, read) ==
    LET idx == RowsOfCharacter(history, character_id) IN
    /\ read \subseteq idx
    /\ Cardinality(read) = Min(RecentLimit, Cardinality(idx))
    /\ \A i \in read : \A j \in idx \ read :
          history[i].used_at >= history[j].used_at

-----------------------------------------------------------------------------
(***************************************************************************)
(* database/migrate_*.py: the one-shot migration scripts                   *)
(*                                                                         *)
(* db holds what the scripts read and write: the columns they add to media *)
(* and characters, whether character_motif_history exists, the character   *)
(* rows (the columns the scripts name) and the characters that have rows   *)
(* in character_motif_history.  A column value is a token: "NoColumn" when *)
(* the table lacks the column, "NULL", "[]", "old" for data stored before, *)
(* or the name of the data set a script wrote.                             *)
(***************************************************************************)
MaxMigrations == 2

Scripts == {"enrichment", "personality", "soul", "characters", "hamill_fix"}

EnrichmentColumns == {"enriched_context", "enriched_at"}
PersonalityColumns == {"motifs", "catchphrases", "avoid", "red_flags"}
SoulColumns == {"loves", "hates"}

\* The keys of BACKFILL_DATA, of SOUL_DATA, the DEACTIVATE list and the ids
\* of CHARACTERS, each cut down to the ids the model keeps.
RosterIds == {"marco_aurelio", "lebowsky", "mark_hamill", "test_character",
              "karen_madrid", "po_teletubbie"}
BACKFILL_DATA == {"marco_aurelio", "lebowsky", "mark_hamill"}
SOUL_DATA == {"marco_aurelio", "mark_hamill", "lebowsky"}
DEACTIVATE == {"karen_madrid"}
CHARACTERS == {"lebowsky", "po_teletubbie"}

\* The columns an ALTER TABLE loop adds: every wanted column (the mutation),
\* or only those PRAGMA table_info did not list.
EveryColumn(existing, wanted) == wanted

MissingColumns(existing, wanted) == wanted \ existing

\* ALTER TABLE ... ADD COLUMN raises "duplicate column name" for a column
\* the table has.
AlterFails(existing, added) == added \cap existing # {}

\* The value of column col of row after ALTER TABLE added the columns added
\* with the default value.
AfterAdd(row, col, added, default) ==
    IF col \in added THEN default ELSE row[col]

\* "if current_motifs and current_motifs != '[]'": the row is skipped.
HasMotifs(row) == row.motifs \notin {"NULL", "[]", ""}

Finished(script, error) ==
    migration' = [script |-> script, error |-> error,
                  runs |-> migration.runs + 1]

\* migrate_enrichment.run_migration
MigrateEnrichment ==
    LET added == MissingColumns(db.media_columns, EnrichmentColumns) IN
    /\ migration.runs < MaxMigrations
    /\ IF AlterFails(db.media_columns, added)
       THEN /\ Finished("enrichment", TRUE)
            /\ UNCHANGED db
       ELSE /\ db' = [db EXCEPT !.media_columns = @ \cup added]
            /\ Finished("enrichment", FALSE)
    /\ UNCHANGED <<soul, jf_request, wsVars, batch, llmVars, parseVars, dbVars, apiVars, syncVars, motifVars,
                   listVars, hybridVars, import_session,
                   setupVars>>

\* The row after the backfill loop of migrate_personality.
Backfilled(row) ==
    IF row.id \in BACKFILL_DATA /\ ~HasMotifs(row)
    THEN [row EXCEPT !.motifs = "backfill", !.catchphrases = "backfill",
                     !.avoid = "backfill", !.red_flags = "backfill"]
    ELSE row

\* migrate_personality.run_migration
MigratePersonality ==
    LET added == MissingColumns(db.character_columns, PersonalityColumns)
        altered(row) ==
            [row EXCEPT !.motifs = AfterAdd(row, "motifs", added, "[]"),
                        !.catchphrases =
                            AfterAdd(row, "catchphrases", added, "[]"),
                        !.avoid = AfterAdd(row, "avoid", added, "[]"),
                        !.red_flags =
                            AfterAdd(row, "red_flags", added, "[]")]
    IN
    /\ migration.runs < MaxMigrations
    /\ IF AlterFails(db.character_columns, added)
       THEN /\ Finished("personality", TRUE)
            /\ UNCHANGED db
       ELSE /\ db' = [db EXCEPT
                        !.character_columns = @ \cup added,
                        !.motif_table = TRUE,
                        !.rows = {Backfilled(altered(row)) : row \in @}]
            /\ Finished("personality", FALSE)
    /\ UNCHANGED <<soul, jf_request, wsVars, batch, llmVars, parseVars, dbVars, apiVars, syncVars, motifVars,
                   listVars, hybridVars, import_session,
                   setupVars>>

\* migrate_soul.run
MigrateSoul ==
    LET added == MissingColumns(db.character_columns, SoulColumns)
        altered(row) ==
            [row EXCEPT !.loves = AfterAdd(row, "loves", added, "[]"),
                        !.hates = AfterAdd(row, "hates", added, "[]")]
        updated(row) ==
            IF row.id \in SOUL_DATA
            THEN [row EXCEPT !.loves = "soul", !.hates = "soul"]
            ELSE row
    IN
    /\ migration.runs < MaxMigrations
    /\ IF AlterFails(db.character_columns, added)
       THEN /\ Finished("soul", TRUE)
            /\ UNCHANGED db
       ELSE /\ db' = [db EXCEPT
                        !.character_columns = @ \cup added,
                        !.rows = {updated(altered(row)) : row \in @}]
            /\ Finished("soul", FALSE)
    /\ UNCHANGED <<soul, jf_request, wsVars, batch, llmVars, parseVars, dbVars, apiVars, syncVars, motifVars,
                   listVars, hybridVars, import_session,
                   setupVars>>

\* The row INSERT OR REPLACE stores for a character of CHARACTERS.
RosterRow(id) ==
    [id |-> id, active |-> TRUE, description |-> "roster",
     motifs |-> "roster", catchphrases |-> "roster", avoid |-> "roster",
     red_flags |-> "roster", loves |-> "roster", hates |-> "roster"]

\* migrate_characters.run_migration: the INSERT names the six structured
\* columns, so it raises when the table lacks one and the connection's
\* context manager rolls the deactivations back.  With foreign_keys ON the
\* replaced rows take their character_motif_history rows with them.
MigrateCharacters ==
    LET deactivated(row) ==
            IF row.id \in DEACTIVATE THEN [row EXCEPT !.active = FALSE]
            ELSE row
    IN
    /\ migration.runs < MaxMigrations
    /\ IF ~(PersonalityColumns \cup SoulColumns \subseteq db.character_columns)
       THEN /\ Finished("characters", TRUE)
            /\ UNCHANGED db
       ELSE /\ db' = [db EXCEPT
                        !.rows = {deactivated(row) :
                                     row \in {r \in @ : r.id \notin CHARACTERS}}
                                 \cup {RosterRow(id) : id \in CHARACTERS},
                        !.history = @ \ CHARACTERS]
            /\ Finished("characters", FALSE)
    /\ UNCHANGED <<soul, jf_request, wsVars, batch, llmVars, parseVars, dbVars, apiVars, syncVars, motifVars,
                   listVars, hybridVars, import_session,
                   setupVars>>

\* migrate_hamill_fix.run_migration: the UPDATE names loves, hates, motifs
\* and red_flags and raises when the table lacks one of them; foreign keys
\* are off, so the history rows of test_character stay.
MigrateHamillFix ==
    LET updated(row) ==
            IF row.id = "mark_hamill"
            THEN [row EXCEPT !.description = "hamill_fix",
                             !.loves = "hamill_fix", !.hates = "hamill_fix",
                             !.motifs = "hamill_fix",
                             !.red_flags = "hamill_fix"]
            ELSE row
    IN
    /\ migration.runs < MaxMigrations
    /\ IF ~({"loves", "hates", "motifs", "red_flags"}
              \subseteq db.character_columns)
       THEN /\ Finished("hamill_fix", TRUE)
            /\ UNCHANGED db
       ELSE /\ db' = [db EXCEPT
                        !.rows = {updated(row) :
                                     row \in {r \in @ :
                                                 r.id # "test_character"}}]
            /\ Finished("hamill_fix", FALSE)
    /\ UNCHANGED <<soul, jf_request, wsVars, batch, llmVars, parseVars, dbVars, apiVars, syncVars, motifVars,
                   listVars, hybridVars, import_session,
                   setupVars>>

\* A character row stored before any of the scripts ran against a table
\* with the columns columns; stored is the value of its list columns.
OldRow(id, columns, stored) ==
    LET value(col, v) == IF col \in columns THEN v ELSE "NoColumn" IN
    [id |-> id, active |-> TRUE, description |-> "old",
     motifs |-> value("motifs", stored),
     catchphrases |-> value("catchphrases", stored),
     avoid |-> value("avoid", stored),
     red_flags |-> value("red_flags", stored),
     loves |-> value("loves", "[]"), hates |-> value("hates", "[]")]

InitColumnSets ==
    {{}, {"motifs"}, PersonalityColumns, SoulColumns,
     PersonalityColumns \cup {"loves"}, PersonalityColumns \cup SoulColumns}

InitRosters ==
    {{}, {"marco_aurelio"}, RosterIds \ {"po_teletubbie"}, RosterIds}

InitMigrate ==
    /\ IdleSoul
    /\ IdleRequest
    /\ IdleWs
    /\ batch = IdleBatch
    /\ IdleLLM
    /\ IdleParse
    /\ IdleSync
    /\ IdleMotif
    /\ characters = SeedCharacters
    /\ media = SeedMedia
    /\ critics = {}
    /\ nextCriticId = 1
    /\ reqs = [r \in Requests |-> IdleReq]
    /\ cart = IdleCart
    /\ lastOp = NoOp
    /\ deleted = {}
    /\ IdleList
    /\ IdleHybrid
    /\ IdleImport
    /\ IdleSetup
    /\ \E media_columns \in SUBSET EnrichmentColumns,
          columns \in InitColumnSets, roster \in InitRosters,
          stored \in {"NULL", "[]", "old"}, motif_table \in BOOLEAN :
          \E history \in SUBSET (roster \cap {"lebowsky", "test_character"}) :
             /\ motif_table \/ history = {}
             /\ db = [media_columns |-> media_columns,
                      character_columns |-> columns,
                      motif_table |-> motif_table,
                      rows |-> {OldRow(id, columns, stored) : id \in roster},
                      history |-> history]
    /\ migration = NoMigration

NextMigrate ==
    \/ MigrateEnrichment
    \/ MigratePersonality
    \/ MigrateSoul
    \/ MigrateCharacters
    \/ MigrateHamillFix

SpecMigrate == InitMigrate /\ [][NextMigrate]_vars

-----------------------------------------------------------------------------
(***************************************************************************)
(* api/main.py: the list endpoints get_media, search_media, get_sync_logs  *)
(*                                                                         *)
(* A string is a sequence of tokens: single characters, and "script" for   *)
(* that run of six characters.  Table media is held as the number of rows  *)
(* that carry each title; the rows are movies without original title and   *)
(* without critiques.                                                      *)
(***************************************************************************)
MaxQueryLen == 2
SomeRows == 60
ManyRows == 250

MediaCap == 200
SearchCap == 50
LogCap == 100
MinQueryLen == 2
PatternLimit == 100

QueryTokens == {"a", "b", "<", "script", "\"", "'", " ", "%"}

Queries == UNION {[1..n -> QueryTokens] : n \in 0..MaxQueryLen}

Titles == {<<"A">>, <<"B", "A">>}

RowCounts == {0, SomeRows, ManyRows}

\* len(): the number of characters of a string.
RECURSIVE Length(_)
Length(s) ==
    IF s = <<>> THEN 0
    ELSE (IF Head(s) = "script" THEN 6 ELSE 1) + Length(Tail(s))

\* str.strip()
RECURSIVE StripLeft(_)
StripLeft(s) ==
    IF s # <<>> /\ Head(s) = " " THEN StripLeft(Tail(s)) ELSE s

RECURSIVE StripRight(_)
StripRight(s) ==
    IF s # <<>> /\ s[Len(s)] = " "
    THEN StripRight(SubSeq(s, 1, Len(s) - 1)) ELSE s

Strip(s) == StripRight(StripLeft(s))

\* The replace loop over fts_special_chars: each special character is
\* wrapped in double quotes; the double quote comes first in the loop, so
\* the quotes the later replacements add are not wrapped again.
fts_special_chars == {"\"", "*", "(", ")", "[", "]", "{", "}", "~", ":"}

RECURSIVE EscapeFts(_)
EscapeFts(s) ==
    IF s = <<>> THEN <<>>
    ELSE (IF Head(s) \in fts_special_chars
          THEN <<"\"", Head(s), "\"">> ELSE <<Head(s)>>)
         \o EscapeFts(Tail(s))

\* The query is withheld from the full-text index when it is shorter than
\* 2 or holds <, > or script.
JudgedUnsafe(fts_query) ==
    \/ Length(fts_query) < 2
    \/ \E i \in 1..Len(fts_query) : fts_query[i] \in {"<", ">", "script"}

\* SQL UPPER() of a string.
Upper(s) ==
    [i \in 1..Len(s) |->
        IF s[i] = "a" THEN "A" ELSE IF s[i] = "b" THEN "B" ELSE s[i]]

\* query.strip()[:100]
RECURSIVE Truncated(_, _)
Truncated(s, n) ==
    IF s = <<>> \/ Length(<<Head(s)>>) > n THEN <<>>
    ELSE <<Head(s)>> \o Truncated(Tail(s), n - Length(<<Head(s)>>))

\* text LIKE pattern, with % for any run of characters.
RECURSIVE Like(_, _)
Like(text, pattern) ==
    IF pattern = <<>> THEN text = <<>>
    ELSE IF Head(pattern) = "%"
         THEN \/ Like(text, Tail(pattern))
              \/ text # <<>> /\ Like(Tail(text), pattern)
         ELSE /\ text # <<>>
              /\ Head(text) = Head(pattern)
              /\ Like(Tail(text), Tail(pattern))

safe_pattern(query) == <<"%">> \o Truncated(Strip(query), PatternLimit) \o <<"%">>

\* The titles the fallback query selects.
LikeTitles(query) ==
    {title \in Titles : Like(Upper(title), Upper(safe_pattern(query)))}

\* The number of rows of table carrying one of the titles.
RECURSIVE RowsWith(_, _)
RowsWith(table, titles) ==
    IF titles = {} THEN 0
    ELSE LET title == CHOOSE t \in titles : TRUE IN
         table[title] + RowsWith(table, titles \ {title})

\* The number of rows a SELECT over total rows returns under LIMIT limit
\* OFFSET offset: SQLite reads a negative limit as no limit and a negative
\* offset as 0.
Limited(total, limit, offset) ==
    LET rest == Max(total - Max(offset, 0), 0) IN
    IF limit < 0 THEN rest ELSE Min(limit, rest)

\* What the MATCH query does: it raises, or it returns rows of some titles.
FtsOutcomes == [raised : {TRUE}, titles : {{}}]
               \cup [raised : {FALSE}, titles : SUBSET Titles]

\* What the MATCH query raised leaves the handler (the mutation), or
\* "except Exception" catches it.
ExceptPropagates == FALSE

ExceptCatches == TRUE

Listed(endpoint, query, limit, status, mode, titles, rows) ==
    [endpoint |-> endpoint, query |-> query, limit |-> limit,
     status |-> status, mode |-> mode, titles |-> titles, rows |-> rows]

Rejected(endpoint, query, limit) ==
    Listed(endpoint, query, limit, 422, None, {}, 0)

\* search_media
SearchMedia(query, limit, outcome) ==
    LET fts_query == EscapeFts(Strip(query))
        try_fts == ~JudgedUnsafe(fts_query)
        selected == IF try_fts /\ ~outcome.raised
                    THEN {t \in outcome.titles : catalog[t] > 0}
                    ELSE {t \in LikeTitles(query) : catalog[t] > 0}
    IN
    /\ listing = NoListing
    /\ listing' =
          IF Length(query) < MinQueryLen \/ limit > SearchCap
          THEN Rejected("search", query, limit)
          ELSE IF try_fts /\ outcome.raised /\ ~ExceptCatches
          THEN Listed("search", query, limit, 500, "fts", {}, 0)
          ELSE Listed("search", query, limit, 200,
                      IF try_fts /\ ~outcome.raised THEN "fts" ELSE "like",
                      selected,
                      Limited(RowsWith(catalog, selected), limit, 0))
    /\ UNCHANGED <<catalog, sync_log_rows>>
    /\ UNCHANGED <<soul, jf_request, wsVars, batch, llmVars, parseVars, dbVars, apiVars, syncVars, motifVars,
                   migrateVars, hybridVars, import_session,
                   setupVars>>

MediaTypes == {None, "movie", "series"}
StartLetters == {None, "A", "b", "0-9"}
HasCriticsValues == {None, "true", "false"}
Offsets == {-1, 0, 1}

\* The titles that pass the WHERE and HAVING clauses get_media builds.
MediaTitles(type, start_letter, has_critics) ==
    {title \in Titles :
        /\ type \in {None, "movie"}
        /\ start_letter = "0-9" => FALSE
        /\ start_letter \notin {None, "0-9"} =>
              Like(Upper(title), Upper(<<start_letter, "%">>))
        /\ has_critics # "true"}

\* get_media
GetMedia(type, limit, offset, has_critics, start_letter) ==
    LET selected ==
            {t \in MediaTitles(type, start_letter, has_critics) :
                catalog[t] > 0}
    IN
    /\ listing = NoListing
    /\ listing' =
          IF limit > MediaCap
          THEN Rejected("media", <<>>, limit)
          ELSE Listed("media", <<>>, limit, 200, None, selected,
                      Limited(RowsWith(catalog, selected), limit, offset))
    /\ UNCHANGED <<catalog, sync_log_rows>>
    /\ UNCHANGED <<soul, jf_request, wsVars, batch, llmVars, parseVars, dbVars, apiVars, syncVars, motifVars,
                   migrateVars, hybridVars, import_session,
                   setupVars>>

\* get_sync_logs
GetSyncLogs(limit) ==
    /\ listing = NoListing
    /\ listing' =
          IF limit > LogCap
          THEN Rejected("sync-logs", <<>>, limit)
          ELSE Listed("sync-logs", <<>>, limit, 200, None, {},
                      Limited(sync_log_rows, limit, 0))
    /\ UNCHANGED <<catalog, sync_log_rows>>
    /\ UNCHANGED <<soul, jf_request, wsVars, batch, llmVars, parseVars, dbVars, apiVars, syncVars, motifVars,
                   migrateVars, hybridVars, import_session,
                   setupVars>>

\* The response has been sent; the handlers have no await, so the event
\* loop answers one list request before it takes the next.
Respond ==
    /\ listing # NoListing
    /\ listing' = NoListing
    /\ UNCHANGED <<catalog, sync_log_rows>>
    /\ UNCHANGED <<soul, jf_request, wsVars, batch, llmVars, parseVars, dbVars, apiVars, syncVars, motifVars,
                   migrateVars, hybridVars, import_session,
                   setupVars>>

\* The limits a caller passes to an endpoint with the cap cap.
Limits(cap) == {-1, 0, 1, cap, cap + 1}

SearchMediaCall ==
    \E query \in Queries, limit \in Limits(SearchCap),
       outcome \in FtsOutcomes : SearchMedia(query, limit, outcome)

GetMediaCall ==
    \E type \in MediaTypes, limit \in Limits(MediaCap), offset \in Offsets,
       has_critics \in HasCriticsValues, start_letter \in StartLetters :
       GetMedia(type, limit, offset, has_critics, start_letter)

GetSyncLogsCall == \E limit \in Limits(LogCap) : GetSyncLogs(limit)

InitList ==
    /\ IdleSoul
    /\ IdleRequest
    /\ IdleWs
    /\ batch = IdleBatch
    /\ IdleLLM
    /\ IdleParse
    /\ IdleSync
    /\ IdleMotif
    /\ IdleMigrate
    /\ IdleHybrid
    /\ IdleImport
    /\ IdleSetup
    /\ characters = SeedCharacters
    /\ media = SeedMedia
    /\ critics = {}
    /\ nextCriticId = 1
    /\ reqs = [r \in Requests |-> IdleReq]
    /\ cart = IdleCart
    /\ lastOp = NoOp
    /\ deleted = {}
    /\ catalog \in [Titles -> RowCounts]
    /\ sync_log_rows \in {0, ManyRows}
    /\ listing = NoListing

NextList ==
    \/ SearchMediaCall
    \/ GetMediaCall
    \/ GetSyncLogsCall
    \/ Respond

SpecList == InitList /\ [][NextList]_vars

CapOf(endpoint) ==
    IF endpoint = "media" THEN MediaCap
    ELSE IF endpoint = "search" THEN SearchCap
    ELSE LogCap

\* C17: every list request that is accepted is answered with at most the
\* endpoint's cap of rows: 200 for the media listing, 50 for the search and
\* 100 for the sync-log listing.
C17_ListCaps ==
    (listing.endpoint # None /\ listing.status = 200) =>
        listing.rows <= CapOf(listing.endpoint)

-----------------------------------------------------------------------------
(***************************************************************************)
(* api/jellyfin_sync.py: JellyfinSyncManager, and the sync endpoints of    *)
(* api/main.py                                                             *)
(*                                                                         *)
(* start_sync runs on the event loop: from the request to the first        *)
(* asyncio.sleep it is one step, and each resumption runs to the next      *)
(* sleep or to the return.  The Jellyfin items are numbered 1..items in    *)
(* the order of the extraction query.                                      *)
(***************************************************************************)
MaxItems == 3
MaxSyncs == 2

BatchSizes == {0, 1, 2}

Answer(kind, status, sync_id) ==
    [kind |-> kind, status |-> status, sync_id |-> sync_id]

\* extract_media_from_jellyfin_db(limit, offset): LIMIT and OFFSET are
\* added only for a limit, and an offset, other than 0.
ExtractBatch(items, limit, offset) ==
    IF limit = 0 THEN 1..items
    ELSE {i \in 1..items : offset < i /\ i <= offset + limit}

\* One pass of the while loop of start_sync for the call loop, from the
\* loop test to the sleep, the return or the raise.  progress is the
\* SyncProgress the manager holds at that moment, loops the other suspended
\* calls and h the value of hybrid; the result is the new value of the
\* three variables.
LoopPass(loop, progress, loops, h) ==
    IF loop.offset < progress.total_items /\ loop.batch_size = 0
    THEN \* offset // batch_size raises: the except clause marks the sync
         \* failed and the endpoint answers 500
         [current_sync |-> [progress EXCEPT !.status = "failed"],
          sync_loops |-> loops,
          hybrid |-> [h EXCEPT !.answer = Answer("start", 500, loop.sync_id)]]
    ELSE LET media_batch ==
                 IF loop.offset < progress.total_items
                 THEN ExtractBatch(h.items, loop.batch_size, loop.offset)
                 ELSE {}
             successful == loop.successful + Cardinality(media_batch)
         IN
         IF media_batch = {}
         THEN \* the loop is left and the sync is marked completed
              [current_sync |-> [progress EXCEPT !.status = "completed"],
               sync_loops |-> loops,
               hybrid |-> [h EXCEPT
                             !.answer = Answer("start", 200, loop.sync_id)]]
         ELSE \* the batch is upserted and the call sleeps
              [current_sync |->
                  [progress EXCEPT
                     !.processed_items =
                         loop.offset + Cardinality(media_batch),
                     !.successful_items = successful],
               sync_loops |->
                  loops \cup {[loop EXCEPT !.offset = @ + loop.batch_size,
                                           !.successful = successful]},
               hybrid |-> [h EXCEPT !.synced = @ \cup media_batch,
                                    !.batches = @ + 1]]

\* The start endpoint answers 409 while the manager's progress says
\* running.
AlreadyInProgress(progress) == progress.status = "running"

\* POST /api/sync/start, to the first sleep of JellyfinSyncManager.start_sync
StartSync(batch_size) ==
    /\ hybrid.started < MaxSyncs
    /\ IF AlreadyInProgress(current_sync)
       THEN /\ hybrid' = [hybrid EXCEPT !.answer = Answer("start", 409, 0),
                                        !.started = @ + 1]
            /\ UNCHANGED <<current_sync, sync_loops>>
       ELSE LET sync_id == hybrid.started + 1
                progress == [sync_id |-> sync_id, status |-> "running",
                             total_items |-> hybrid.items,
                             processed_items |-> 0, successful_items |-> 0]
                loop == [sync_id |-> sync_id, offset |-> 0,
                         batch_size |-> batch_size, successful |-> 0]
                after == LoopPass(loop, progress, sync_loops,
                                  [hybrid EXCEPT !.started = sync_id])
            IN
            /\ current_sync' = after.current_sync
            /\ sync_loops' = after.sync_loops
            /\ hybrid' = after.hybrid
    /\ UNCHANGED <<soul, jf_request, wsVars, batch, llmVars, parseVars, dbVars, apiVars, syncVars, motifVars,
                   migrateVars, listVars, import_session,
                   setupVars>>

\* A suspended start_sync call wakes from asyncio.sleep and runs its next
\* pass on whatever SyncProgress the manager holds now.
ResumeSync(loop) ==
    LET after == LoopPass(loop, current_sync, sync_loops \ {loop}, hybrid) IN
    /\ loop \in sync_loops
    /\ current_sync' = after.current_sync
    /\ sync_loops' = after.sync_loops
    /\ hybrid' = after.hybrid
    /\ UNCHANGED <<soul, jf_request, wsVars, batch, llmVars, parseVars, dbVars, apiVars, syncVars, motifVars,
                   migrateVars, listVars, import_session,
                   setupVars>>

\* POST /api/sync/cancel and JellyfinSyncManager.cancel_sync
CancelSync ==
    /\ IF current_sync.status = "running"
       THEN current_sync' = [current_sync EXCEPT !.status = "cancelled"]
       ELSE UNCHANGED current_sync
    /\ hybrid' = [hybrid EXCEPT
                    !.answer = Answer("cancel", 200, current_sync.sync_id)]
    /\ UNCHANGED sync_loops
    /\ UNCHANGED <<soul, jf_request, wsVars, batch, llmVars, parseVars, dbVars, apiVars, syncVars, motifVars,
                   migrateVars, listVars, import_session,
                   setupVars>>

\* GET /api/sync/progress
GetSyncProgress ==
    /\ hybrid' = [hybrid EXCEPT
                    !.answer = Answer("progress", 200, current_sync.sync_id)]
    /\ UNCHANGED <<current_sync, sync_loops>>
    /\ UNCHANGED <<soul, jf_request, wsVars, batch, llmVars, parseVars, dbVars, apiVars, syncVars, motifVars,
                   migrateVars, listVars, import_session,
                   setupVars>>

StartSyncCall == \E batch_size \in BatchSizes : StartSync(batch_size)

ResumeSyncStep == \E loop \in sync_loops : ResumeSync(loop)

InitHybrid ==
    /\ IdleSoul
    /\ IdleRequest
    /\ IdleWs
    /\ batch = IdleBatch
    /\ IdleLLM
    /\ IdleParse
    /\ IdleSync
    /\ IdleMotif
    /\ IdleMigrate
    /\ IdleList
    /\ IdleImport
    /\ IdleSetup
    /\ characters = SeedCharacters
    /\ media = SeedMedia
    /\ critics = {}
    /\ nextCriticId = 1
    /\ reqs = [r \in Requests |-> IdleReq]
    /\ cart = IdleCart
    /\ lastOp = NoOp
    /\ deleted = {}
    /\ current_sync = NoSync
    /\ sync_loops = {}
    /\ \E items \in 0..MaxItems :
          hybrid = [items |-> items, synced |-> {}, batches |-> 0,
                    started |-> 0, answer |-> NoAnswer]

NextHybrid ==
    \/ StartSyncCall
    \/ ResumeSyncStep
    \/ CancelSync
    \/ GetSyncProgress

SpecHybrid == InitHybrid /\ [][NextHybrid]_vars

\* C13: at every moment at most one start_sync batch loop started through
\* the start endpoint is executing, whatever the interleaving of start,
\* cancel and progress requests.
C13_OneBatchLoop == Cardinality(sync_loops) <= 1

\* C14: once a sync is cancelled, no further batch is extracted or upserted
\* and its status stays cancelled, for as long as the manager holds that
\* sync.
C14_CancelStopsLoop ==
    [][(/\ current_sync.status = "cancelled"
        /\ current_sync'.sync_id = current_sync.sync_id)
       => /\ current_sync'.status = "cancelled"
          /\ hybrid'.batches = hybrid.batches
          /\ hybrid'.synced = hybrid.synced]_vars

-----------------------------------------------------------------------------
(***************************************************************************)
(* api/main.py: the media import endpoints and perform_media_import, with  *)
(* WebSocketManager's import sessions (utils/websocket_manager.py)         *)
(*                                                                         *)
(* One import session is followed.  pc is the position of its background   *)
(* task, which moves from one await to the next; sent lists the types of   *)
(* the messages broadcast for the session.  The task's call of             *)
(* sync_jellyfin_library is the run of SyncStart, SyncItem and SyncFinish. *)
(***************************************************************************)
MaxCancels == 2

\* _broadcast_to_session(session_id, message_type, ...)
Broadcast(session, message_type) ==
    [session EXCEPT !.sent = Append(@, message_type)]

\* update_import_progress(session_id, processed_items = n, ...)
UpdateImportProgress(session, n) ==
    IF ~session.exists THEN session
    ELSE Broadcast([session EXCEPT !.processed_items = n], "import_progress")

\* complete_import_session(session_id, success)
CompleteImportSession(session, success) ==
    IF ~session.exists THEN session
    ELSE Broadcast([session EXCEPT
                      !.status = IF success THEN "completed" ELSE "error",
                      !.active = FALSE],
                   IF success THEN "import_completed" ELSE "import_error")

\* cancel_import_session(session_id)
CancelImportSession(session) ==
    IF ~session.exists THEN session
    ELSE Broadcast([session EXCEPT !.status = "cancelled",
                                   !.active = FALSE],
                   "import_cancelled")

\* POST /api/media/import/start: start_import_session, and the background
\* task is scheduled.
StartMediaImport ==
    /\ ~import_session.exists
    /\ import_session' =
          Broadcast([import_session EXCEPT
                       !.exists = TRUE, !.pc = "initialize",
                       !.status = "running", !.active = TRUE],
                    "import_started")
    /\ UNCHANGED <<soul, jf_request, wsVars, batch, llmVars, parseVars, dbVars, apiVars, syncVars, motifVars,
                   migrateVars, listVars, hybridVars,
                   setupVars>>

\* The steps of perform_media_import that update the progress and sleep.
ProgressSteps ==
    [initialize |-> [processed_items |-> 0, next |-> "connect"],
     scan       |-> [processed_items |-> 20, next |-> "import"],
     metadata   |-> [processed_items |-> 70, next |-> "finalize"],
     finalize   |-> [processed_items |-> 90, next |-> "finish"]]

ImportProgressStep ==
    /\ import_session.pc \in DOMAIN ProgressSteps
    /\ LET step == ProgressSteps[import_session.pc]
           updated == UpdateImportProgress(import_session,
                                           step.processed_items)
       IN import_session' =
             [updated EXCEPT
                !.pc = step.next,
                !.total_items = IF import_session.pc = "initialize"
                                THEN 100 ELSE @]
    /\ UNCHANGED <<soul, jf_request, wsVars, batch, llmVars, parseVars, dbVars, apiVars, syncVars, motifVars,
                   migrateVars, listVars, hybridVars,
                   setupVars>>

\* "async with SyncManager(...)": the Jellyfin connection is made, or it
\* raises and the except clause completes the session as failed.
ImportConnect(connected) ==
    /\ import_session.pc = "connect"
    /\ import_session' =
          IF connected
          THEN [UpdateImportProgress(import_session, 10) EXCEPT
                  !.pc = "scan"]
          ELSE [CompleteImportSession(import_session, FALSE) EXCEPT
                  !.pc = "done"]
    /\ UNCHANGED <<soul, jf_request, wsVars, batch, llmVars, parseVars, dbVars, apiVars, syncVars, motifVars,
                   migrateVars, listVars, hybridVars,
                   setupVars>>

\* The progress is set to 30 and sync_jellyfin_library is called.
ImportCallSync ==
    /\ import_session.pc = "import"
    /\ sync.pc \in {"idle", "done"}
    /\ sync.runs < MaxRuns
    /\ import_session' =
          [UpdateImportProgress(import_session, 30) EXCEPT !.pc = "syncing"]
    /\ sync' = [sync EXCEPT !.pc = "running", !.items = library,
                            !.pending = library, !.log = {},
                            !.processed = 0, !.added = 0, !.updated = 0,
                            !.unchanged = 0, !.errors = 0,
                            !.status = "started", !.runs = @ + 1]
    /\ UNCHANGED <<soul, jf_request, wsVars, batch, library, llmVars, parseVars, dbVars, apiVars, motifVars,
                   migrateVars, listVars, hybridVars,
                   setupVars>>

\* sync_jellyfin_library has returned.
ImportSyncReturned ==
    /\ import_session.pc = "syncing"
    /\ sync.pc = "done"
    /\ import_session' = [import_session EXCEPT !.pc = "metadata"]
    /\ UNCHANGED <<soul, jf_request, wsVars, batch, llmVars, parseVars, dbVars, apiVars, syncVars, motifVars,
                   migrateVars, listVars, hybridVars,
                   setupVars>>

\* The last update and complete_import_session(session_id, success=True).
ImportFinish ==
    /\ import_session.pc = "finish"
    /\ import_session' =
          [CompleteImportSession(
               UpdateImportProgress(import_session, 100), TRUE)
           EXCEPT !.pc = "done"]
    /\ UNCHANGED <<soul, jf_request, wsVars, batch, llmVars, parseVars, dbVars, apiVars, syncVars, motifVars,
                   migrateVars, listVars, hybridVars,
                   setupVars>>

\* POST /api/media/import/cancel/{session_id}
CancelMediaImport ==
    /\ import_session.cancels < MaxCancels
    /\ import_session' =
          [CancelImportSession(import_session) EXCEPT !.cancels = @ + 1]
    /\ UNCHANGED <<soul, jf_request, wsVars, batch, llmVars, parseVars, dbVars, apiVars, syncVars, motifVars,
                   migrateVars, listVars, hybridVars,
                   setupVars>>

ImportConnectStep == \E connected \in BOOLEAN : ImportConnect(connected)

InitImport ==
    /\ IdleLLM
    /\ IdleParse
    /\ IdleGen

NextImport ==
    \/ StartMediaImport
    \/ ImportProgressStep
    \/ ImportConnectStep
    \/ ImportCallSync
    \/ SyncItemStep
    \/ SyncFinish
    \/ ImportSyncReturned
    \/ ImportFinish
    \/ CancelMediaImport

SpecImport == InitImport /\ [][NextImport]_vars

\* C15: once the session is cancelled, no further progress update is
\* broadcast for it and its status stays cancelled.
C15_CancelStopsImport ==
    [][import_session.status = "cancelled" =>
          /\ import_session'.status = "cancelled"
          /\ \A i \in (Len(import_session.sent) + 1)
                        ..Len(import_session'.sent) :
                import_session'.sent[i] # "import_progress"]_vars

-----------------------------------------------------------------------------
(***************************************************************************)
(* api/main.py: save_setup_configuration                                   *)
(*                                                                         *)
(* A configuration is the request body: a key that is absent has the value *)
(* None.  env_file holds the settings the handler writes; the comment      *)
(* lines of the file are left out.                                         *)
(***************************************************************************)
required_fields == <<"JELLYFIN_URL", "LLM_OLLAMA_URL", "LLM_PRIMARY_MODEL">>

Configs ==
    [JELLYFIN_URL : {None, "", "http://jellyfin"},
     JELLYFIN_API_TOKEN : {None, "token"},
     LLM_OLLAMA_URL : {None, "", "http://ollama"},
     LLM_PRIMARY_MODEL : {None, "", "qwen3:8b"},
     LLM_SECONDARY_MODEL : {None, "mistral:7b"},
     LLM_TIMEOUT : {None, "60"},
     LLM_ENABLE_FALLBACK : {None, "false"}]

\* not config.get(field)
NotGiven(config, field) == config[field] \in {None, ""}

\* missing_fields, in the order of required_fields
missing_fields(config) ==
    SelectSeq(required_fields, LAMBDA field : NotGiven(config, field))

\* The lines of env_content that carry a setting.
EnvContent(config) ==
    [written |-> TRUE,
     JELLYFIN_URL |-> config.JELLYFIN_URL,
     JELLYFIN_API_TOKEN |-> config.JELLYFIN_API_TOKEN,
     LLM_OLLAMA_URL |-> config.LLM_OLLAMA_URL,
     LLM_PRIMARY_MODEL |-> config.LLM_PRIMARY_MODEL,
     LLM_SECONDARY_MODEL |-> config.LLM_SECONDARY_MODEL,
     LLM_TIMEOUT |-> IF config.LLM_TIMEOUT = None THEN "180"
                     ELSE config.LLM_TIMEOUT,
     LLM_ENABLE_FALLBACK |-> IF config.LLM_ENABLE_FALLBACK = None THEN "true"
                             ELSE config.LLM_ENABLE_FALLBACK]

\* The answer to an HTTPException(status_code=400) raised inside the try
\* block: "except Exception" catches it and raises HTTPException(500) with
\* str(e) in the detail, which holds the first detail or nothing, by the
\* version of the framework.
AnswerToRaised(detail, str_has_detail) ==
    [status |-> 500, detail |-> IF str_has_detail THEN detail ELSE {}]

\* POST /api/setup/save-configuration
SaveSetupConfiguration(config, writable, str_has_detail) ==
    LET missing == missing_fields(config)
        named == {missing[i] : i \in 1..Len(missing)}
    IN
    /\ IF missing # <<>>
       THEN /\ setup' = AnswerToRaised(named, str_has_detail)
            /\ UNCHANGED env_file
       ELSE IF ~writable
       THEN /\ setup' = [status |-> 500, detail |-> {}]
            /\ UNCHANGED env_file
       ELSE /\ env_file' = EnvContent(config)
            /\ setup' = [status |-> 200, detail |-> {}]
    /\ UNCHANGED <<soul, jf_request, wsVars, batch, llmVars, parseVars, dbVars, apiVars, syncVars, motifVars,
                   migrateVars, listVars, hybridVars, import_session>>

SaveSetupConfigurationCall ==
    \E config \in Configs, writable \in BOOLEAN, str_has_detail \in BOOLEAN :
       SaveSetupConfiguration(config, writable, str_has_detail)

InitSetup ==
    /\ IdleSoul
    /\ IdleRequest
    /\ IdleWs
    /\ batch = IdleBatch
    /\ IdleLLM
    /\ IdleParse
    /\ IdleSync
    /\ IdleMotif
    /\ IdleMigrate
    /\ IdleList
    /\ IdleHybrid
    /\ IdleImport
    /\ characters = SeedCharacters
    /\ media = SeedMedia
    /\ critics = {}
    /\ nextCriticId = 1
    /\ reqs = [r \in Requests |-> IdleReq]
    /\ cart = IdleCart
    /\ lastOp = NoOp
    /\ deleted = {}
    /\ env_file \in {NoEnvFile}
                    \cup {EnvContent(config) :
                             config \in {c \in Configs :
                                            missing_fields(c) = <<>>}}
    /\ setup = NoSetup

NextSetup == SaveSetupConfigurationCall

SpecSetup == InitSetup /\ [][NextSetup]_vars

\* C16: a configuration-save request that lacks a required field is
\* answered with a 4xx status and a message that names the missing fields,
\* and leaves the environment file as it was.
C16_MissingFieldsRejected ==
    [][\A config \in Configs :
          \A writable \in BOOLEAN, str_has_detail \in BOOLEAN :
             (/\ SaveSetupConfiguration(config, writable, str_has_detail)
              /\ missing_fields(config) # <<>>)
             => /\ setup'.status \in 400..499
                /\ setup'.detail =
                      {field \in DOMAIN config :
                          /\ \E i \in 1..Len(required_fields) :
                                required_fields[i] = field
                          /\ NotGiven(config, field)}
                /\ env_file' = env_file]_vars

-----------------------------------------------------------------------------
\* The attempts of the last generate_critic call name no endpoint but the
\* forced one, and there is at most one of them.
OnlyForcedAttempted ==
    /\ Len(llmCall.result.attempts) <= 1
    /\ \A i \in 1..Len(llmCall.result.attempts) :
          llmCall.result.attempts[i].endpoint = llmCall.force

\* C18 as stated: whenever generate_critic is called with a force_endpoint
\* value, the attempts list has at most one entry and it names the forced
\* endpoint.
C18_AnyForceValue ==
    (llmCall.made /\ llmCall.force # None) => OnlyForcedAttempted

\* C18: whenever generate_critic is called with a force_endpoint value that
\* names one of the manager's endpoints, the attempts list has at most one
\* entry and it names the forced endpoint, whether the generation succeeds
\* or fails.
C18_ForcedEndpointOnly ==
    (/\ llmCall.made
     /\ llmCall.force \notin {None, ""}
     /\ llmCall.force \in Endpoints(llmConfig))
    => /\ OnlyForcedAttempted
       /\ Len(llmCall.result.attempts) = 1

\* The secondary endpoint was forced and failed while fallback is enabled
\* and the primary would have answered: it is the only attempt.
C18_Witness ==
    /\ llmCall.made
    /\ llmCall.force = "ollama_secondary"
    /\ llmConfig.fallback
    /\ llmCall.outcome["ollama_primary"] = "ok"
    /\ ~llmCall.result.success
    /\ llmCall.result.attempts = <<Attempt("ollama_secondary", "failed")>>

-----------------------------------------------------------------------------
(***************************************************************************)
(* utils/sync_manager.py: SyncManager.cleanup_orphaned_media               *)
(***************************************************************************)
\* A mutation of the set difference: every stored id counts as orphaned.
EveryStoredId(db_ids, current_ids) == db_ids

\* orphaned_ids = db_ids - current_ids
OrphanedIds(db_ids, current_ids) == db_ids \ current_ids

\* cleanup_orphaned_media: the ids of the server's items are enumerated, the
\* rows stored under another id are deleted and their number is returned;
\* when the enumeration raises, nothing is deleted and 0 is returned.
CleanupOrphanedMedia(raised) ==
    LET current_ids == {item.Id : item \in library}
        db_ids == {m.jellyfin_id : m \in {n \in media : n.jellyfin_id # None}}
        orphaned_ids == OrphanedIds(db_ids, current_ids)
        kept == {m \in media : m.jellyfin_id \notin orphaned_ids}
    IN
    /\ sync.pc # "running"
    /\ IF raised
       THEN /\ lastOp' = Op("cleanup_orphaned_media_failed", 0)
            /\ UNCHANGED media
       ELSE /\ media' = kept
            /\ lastOp' = [Op("cleanup_orphaned_media", 0) EXCEPT
                            !.count = Cardinality(media \ kept)]
    /\ UNCHANGED <<restVars, characters, critics, nextCriticId, reqs, cart,
                   deleted, llmVars, parseVars, syncVars, motifVars>>

CleanupOrphanedMediaCall ==
    \E raised \in BOOLEAN : CleanupOrphanedMedia(raised)

\* The media rows a sync may have stored before.
StoredMedia ==
    {MediaRow(1, "jf_1", "tmdb_1", "A", 0), MediaRow(2, "jf_2", "tmdb_2", "B", 0),
     MediaRow(3, "jf_3", "tmdb_3", "B", 0)}

InitCleanup ==
    /\ IdleLLM
    /\ IdleParse
    /\ IdleMotif
    /\ IdleRest
    /\ characters = SeedCharacters
    /\ media \in SUBSET StoredMedia
    /\ critics = {}
    /\ nextCriticId = 1
    /\ reqs = [r \in Requests |-> IdleReq]
    /\ cart = IdleCart
    /\ lastOp = NoOp
    /\ deleted = {}
    /\ library \in Libraries
    /\ sync = [pc |-> "idle", items |-> {}, pending |-> {}, log |-> {},
               processed |-> 0, added |-> 0, updated |-> 0, unchanged |-> 0,
               errors |-> 0, status |-> "none", runs |-> 0, now |-> 0]

NextCleanup ==
    \/ CleanupOrphanedMediaCall
    \/ LibraryChangeStep

SpecCleanup == InitCleanup /\ [][NextCleanup]_vars

\* C19: a cleanup that enumerated the server deletes exactly the media rows
\* whose Jellyfin id is not among the enumerated ids, leaves the other rows
\* as they were and returns the number of rows it deleted.
C19_CleanupDeletesOrphans ==
    [][CleanupOrphanedMedia(FALSE) =>
          /\ media' = {m \in media :
                          \E item \in library : item.Id = m.jellyfin_id}
          /\ lastOp'.count = Cardinality(media) - Cardinality(media')]_vars

\* A cleanup deleted two rows and kept the one whose item the server holds.
C19_Witness ==
    /\ lastOp.kind = "cleanup_orphaned_media"
    /\ lastOp.count = 2
    /\ Cardinality(media) = 1
    /\ \A m \in media : \E item \in library : item.Id = m.jellyfin_id

-----------------------------------------------------------------------------
(***************************************************************************)
(* api/main.py: the three generation handlers on one event loop.           *)
(* generate_critic_for_media, generate_batch_critics and                   *)
(* generate_cart_batch_critics each look at table critics, await           *)
(* generate_critic and insert afterwards; between the look and the insert  *)
(* the other handlers run.                                                 *)
(***************************************************************************)

\* The limits a client sends to generate_batch_critics (Query(10, le=50)).
BatchLimits == {0, 1, 2}

\* The rows of the LEFT JOIN: media with a provider id and no critique of
\* the character.
WithoutCritics(character_id) ==
    {m \in media : m.tmdb_id # None /\ CriticsOf(critics, m.id, character_id) = {}}

\* ORDER BY m.created_at DESC LIMIT ?: the ids of at most limit of the
\* candidates.  The creation times are not part of the media rows kept
\* here, so every order is the order of some table.
BatchRows(candidates, limit) ==
    LET n == Min(limit, Cardinality(candidates))
    IN  {rows \in [1..n -> {m.id : m \in candidates}] :
            \A i, j \in 1..n : i # j => rows[i] # rows[j]}

\* generate_batch_critics up to its first await of generate_critic or, when
\* no media is selected, to its response.
BatchStart(character, limit) ==
    LET character_row == {c \in characters : c.name = character /\ c.active}
        character_id  == (CHOOSE c \in character_row : TRUE).id
    IN
    /\ batch.pc = "idle"
    /\ IF character_row = {}
       THEN /\ batch' = [IdleBatch EXCEPT !.pc = "done", !.status = 400]
            /\ UNCHANGED generation_stats
       ELSE \E rows \in BatchRows(WithoutCritics(character_id), limit) :
              IF rows = <<>>
              THEN /\ batch' = [IdleBatch EXCEPT
                                  !.pc = "done", !.status = 200,
                                  !.character = character,
                                  !.character_id = character_id]
                   /\ UNCHANGED generation_stats
              ELSE /\ generation_stats.total_requests < MaxCalls
                   /\ generation_stats' = StatsAtCall(generation_stats)
                   /\ batch' = [IdleBatch EXCEPT
                                  !.pc = "awaiting", !.k = 1,
                                  !.character = character,
                                  !.character_id = character_id,
                                  !.media_rows = rows]
    /\ lastOp' = Op("generate_batch_critics", batch'.status)
    /\ UNCHANGED <<soul, jf_request, wsVars, migrateVars, listVars, hybridVars, import_session, setupVars,
                   dbVars, reqs, cart, deleted, llmConfig, llmCall, parseVars,
                   syncVars, motifVars>>

\* generate_batch_critics from the return of a generate_critic call to the
\* next await or to the response: a successful result is parsed and
\* inserted, and an INSERT that raises is caught and reported as "error".
BatchFinish(force, outcome, text) ==
    LET result        == GenerateCriticResult(llmConfig, force, outcome)
        parsed_critic == ParseCriticResponse(text)
        media_id      == batch.media_rows[batch.k]
        inserted      == result.success
                         /\ ForeignKeysHold(media_id, batch.character_id)
        status        == IF ~result.success THEN "failed"
                         ELSE IF inserted THEN "success" ELSE "error"
        more          == batch.k < Len(batch.media_rows)
    IN
    /\ batch.pc = "awaiting"
    /\ critics' = IF inserted
                  THEN critics \cup {CriticRow(nextCriticId, media_id,
                                               batch.character_id,
                                               parsed_critic.rating)}
                  ELSE critics
    /\ nextCriticId' = nextCriticId + (IF inserted THEN 1 ELSE 0)
    /\ batch' = [batch EXCEPT
                   !.k = IF more THEN @ + 1 ELSE @,
                   !.processed = @ + (IF inserted THEN 1 ELSE 0),
                   !.results = Append(@, status),
                   !.pc = IF more THEN "awaiting" ELSE "done",
                   !.status = IF more THEN 0 ELSE 200]
    /\ IF more
       THEN /\ generation_stats.total_requests < MaxCalls
            /\ generation_stats' =
                  StatsAtCall(StatsAtReturn(generation_stats, result))
       ELSE generation_stats' = StatsAtReturn(generation_stats, result)
    /\ lastOp' = Op("generate_batch_critics", batch'.status)
    /\ UNCHANGED <<soul, jf_request, wsVars, migrateVars, listVars, hybridVars, import_session, setupVars,
                   characters, media, reqs, cart, deleted, llmConfig, llmCall,
                   parseVars, syncVars, motifVars>>

\* The requests that meet at one pair: the provider ids of the two seed
\* media rows and one character, by name for the single-item and batch
\* handlers and by id for the cart handler.
PairTmdbIds == {"tmdb_1", "tmdb_2"}
PairCharacter == "Marco Aurelio"
PairCritic == "marco_aurelio"

PairSingleStartCall ==
    \E r \in Requests : \E tmdb_id \in PairTmdbIds :
        SingleStart(r, tmdb_id, PairCharacter)

PairBatchStartCall ==
    \E limit \in BatchLimits : BatchStart(PairCharacter, limit)

PairCartStartCall ==
    \E tmdb_id \in PairTmdbIds : CartStart(<<tmdb_id>>, <<PairCritic>>)

BatchFinishCall ==
    \E force \in ForceValues : \E outcome \in OllamaAnswers :
    \E text \in ResponseTexts :
        BatchFinish(force, outcome, text)

InitPair == InitGen

NextPair ==
    \/ PairSingleStartCall
    \/ SingleFinishCall
    \/ PairBatchStartCall
    \/ BatchFinishCall
    \/ PairCartStartCall
    \/ CartFinishCall

SpecPair == InitPair /\ [][NextPair]_vars

\* A generation request is suspended in its await of generate_critic.
InFlight ==
    \/ \E r \in Requests : reqs[r].pc = "awaiting"
    \/ batch.pc = "awaiting"
    \/ cart.pc = "awaiting"

\* C20: whenever no generation request is in flight, table critics holds at
\* most one row for every pair of a media row and a character, whatever the
\* interleaving of single-item, batch-by-character and cart-batch requests
\* was.
C20_OneRowPerPair ==
    ~InFlight =>
        \A m \in media : \A c \in characters :
            Cardinality(CriticsOf(critics, m.id, c.id)) <= 1

-----------------------------------------------------------------------------
\* The cart batch returns from a generate_critic call in which every
\* endpoint tried has failed.
CartGenerationFailed(outcome) ==
    /\ CartFinish(outcome)
    /\ ~GenerateCriticResult(llmConfig, None, outcome).success

\* C21: in the cart batch, a pair whose generation fails on every endpoint
\* is recorded in the results as a failure, is not counted in processed and
\* gets no row in table critics.
C21_CartFailureNotStored ==
    [][\A outcome \in OllamaAnswers :
         CartGenerationFailed(outcome) =>
            LET pair == CartPair(cart)
                result == cart'.results[Len(cart.results) + 1]
            IN  /\ critics' = critics
                /\ cart'.processed = cart.processed
                /\ result.tmdb_id = pair.tmdb_id
                /\ result.status \in {"failed", "error"}]_vars

-----------------------------------------------------------------------------
(***************************************************************************)
(* utils/websocket_manager.py: the connection registry and                 *)
(* _broadcast_to_session.  self.connections is a dict, read in the order   *)
(* of insertion.  A broadcast gathers the sends to the subscribed clients, *)
(* and while it awaits them the endpoint handlers of other clients run:    *)
(* they register a client, subscribe it, or remove it.                     *)
(***************************************************************************)
Clients == {"c1", "c2", "c3"}
Sessions == {"s1", "s2"}
MessageTypes == {"import_started", "import_progress", "import_completed",
                 "import_error", "import_cancelled"}

\* What websocket.send_text does for one client: it returns, it raises
\* WebSocketDisconnect, or it raises another exception.
SendOutcomes == {"sent", "disconnect", "error"}

Connection(client_id) ==
    [client_id |-> client_id, connected |-> TRUE, subscriptions |-> {}]

ClientIds(registry) == {registry[i].client_id : i \in 1..Len(registry)}

Removed(registry, ids) ==
    SelectSeq(registry, LAMBDA connection : connection.client_id \notin ids)

\* connect_client: the connection is accepted and registered; its
\* subscription follows after an await.
ConnectClient(c) ==
    /\ c \notin ClientIds(connections)
    /\ c \notin Range(broadcast.tasks)
    /\ connections' = Append(connections, Connection(c))
    /\ UNCHANGED <<soul, jf_request, broadcast, migrateVars, listVars, hybridVars, import_session,
                   setupVars, batch, llmVars, parseVars, dbVars, apiVars,
                   syncVars, motifVars>>

\* subscribe_to_session(client_id, session_id), called once by the endpoint
\* handler of the client.
SubscribeToSession(c, s) ==
    /\ \E i \in 1..Len(connections) :
          /\ connections[i].client_id = c
          /\ connections[i].subscriptions = {}
          /\ connections' = [connections EXCEPT ![i].subscriptions = {s}]
    /\ UNCHANGED <<soul, jf_request, broadcast, migrateVars, listVars, hybridVars, import_session,
                   setupVars, batch, llmVars, parseVars, dbVars, apiVars,
                   syncVars, motifVars>>

\* disconnect_client(client_id): the connection is closed and deleted from
\* the registry.
DisconnectClient(c) ==
    /\ c \in ClientIds(connections)
    /\ connections' = Removed(connections, {c})
    /\ UNCHANGED <<soul, jf_request, broadcast, migrateVars, listVars, hybridVars, import_session,
                   setupVars, batch, llmVars, parseVars, dbVars, apiVars,
                   syncVars, motifVars>>

\* send_message: False for a connection that is not connected, True when
\* send_text returns, and False with connected reset when it raises.
SendMessage(connection, outcome) ==
    connection.connected /\ outcome = "sent"

AfterSend(connection, outcome) ==
    IF connection.connected /\ outcome # "sent"
    THEN [connection EXCEPT !.connected = FALSE]
    ELSE connection

\* _broadcast_to_session up to the return of asyncio.gather: one send for
\* every connection subscribed to the session, in registry order.
BroadcastToSession(s, message_type, outcome) ==
    LET subscribed == SelectSeq(connections,
                         LAMBDA connection : s \in connection.subscriptions)
        tasks   == [i \in 1..Len(subscribed) |-> subscribed[i].client_id]
        results == [i \in 1..Len(subscribed) |->
                      SendMessage(subscribed[i], outcome[tasks[i]])]
        call    == [NoBroadcast EXCEPT !.session_id = s,
                                       !.message_type = message_type]
    IN
    /\ broadcast.pc \in {"idle", "returned", "raised"}
    /\ IF connections = <<>> \/ tasks = <<>>
       THEN /\ broadcast' = [call EXCEPT !.pc = "returned"]
            /\ UNCHANGED connections
       ELSE /\ broadcast' = [call EXCEPT !.pc = "gathered", !.tasks = tasks,
                                         !.results = results]
            /\ connections' =
                  [i \in 1..Len(connections) |->
                     IF s \in connections[i].subscriptions
                     THEN AfterSend(connections[i],
                                    outcome[connections[i].client_id])
                     ELSE connections[i]]
    /\ UNCHANGED <<soul, jf_request, migrateVars, listVars, hybridVars, import_session,
                   setupVars, batch, llmVars, parseVars, dbVars, apiVars,
                   syncVars, motifVars>>

\* The clients whose send failed in the broadcast.
FailedClients(b) == {b.tasks[i] : i \in {j \in 1..Len(b.tasks) : ~b.results[j]}}

\* _broadcast_to_session after the gather: the loop reads results[i] for the
\* i-th connection of the registry, which raises IndexError when the
\* registry holds more connections than there are results; otherwise the
\* connections it has listed are disconnected and deleted.
CleanUpDisconnected ==
    LET disconnected == {connections[i].client_id :
                            i \in {j \in 1..Len(connections) :
                                      ~broadcast.results[j]}}
    IN
    /\ broadcast.pc = "gathered"
    /\ IF Len(connections) > Len(broadcast.results)
       THEN /\ broadcast' = [broadcast EXCEPT !.pc = "raised", !.raised = TRUE]
            /\ UNCHANGED connections
       ELSE /\ broadcast' = [broadcast EXCEPT !.pc = "returned"]
            /\ connections' = Removed(connections, disconnected)
    /\ UNCHANGED <<soul, jf_request, migrateVars, listVars, hybridVars, import_session,
                   setupVars, batch, llmVars, parseVars, dbVars, apiVars,
                   syncVars, motifVars>>

ConnectClientCall == \E c \in Clients : ConnectClient(c)

SubscribeToSessionCall ==
    \E c \in Clients : \E s \in Sessions : SubscribeToSession(c, s)

DisconnectClientCall == \E c \in Clients : DisconnectClient(c)

BroadcastToSessionCall ==
    \E s \in Sessions : \E message_type \in MessageTypes :
    \E outcome \in [Clients -> SendOutcomes] :
        \* send_text is called for the connected subscribers only
        /\ \A c \in Clients :
              (\E i \in 1..Len(connections) :
                  /\ connections[i].client_id = c
                  /\ connections[i].connected
                  /\ s \in connections[i].subscriptions)
              \/ outcome[c] = "sent"
        /\ BroadcastToSession(s, message_type, outcome)

InitBroadcast ==
    /\ IdleLLM
    /\ IdleParse
    /\ IdleGen

NextBroadcast ==
    \/ ConnectClientCall
    \/ SubscribeToSessionCall
    \/ DisconnectClientCall
    \/ BroadcastToSessionCall
    \/ CleanUpDisconnected

SpecBroadcast == InitBroadcast /\ [][NextBroadcast]_vars

\* C22: a broadcast to a session never raises, whatever clients are
\* connected, subscribed or failing.
C22_BroadcastNeverRaises == ~broadcast.raised

\* C23: a broadcast removes from the registry exactly the clients whose send
\* failed in it; clients not subscribed to the session and clients whose
\* send succeeded stay.
C23_RemovesExactlyFailed ==
    [][CleanUpDisconnected =>
          ClientIds(connections') =
             ClientIds(connections) \ FailedClients(broadcast)]_vars

-----------------------------------------------------------------------------
(***************************************************************************)
(* utils/jellyfin_client.py: JellyfinClient._make_request.  A call is a    *)
(* loop of at most max_retries + 1 attempts; an action is one attempt,     *)
(* from the answer of self._client.request to the return, the raise, or    *)
(* the next request sent after the backoff sleep.  jf_request.log keeps, for  *)
(* every attempt, what the server did and the seconds slept after it.      *)
(***************************************************************************)
MaxRetries == 2

\* What self._client.request does: it raises httpx.TimeoutException,
\* httpx.ConnectError or another exception, or it returns a response.
Exceptions == {"timeout", "connect_error", "exception"}
StatusCodes == {200, 404, 500}
Bodies == {"empty", "json", "text"}
Responses ==
    [kind : Exceptions, status : {0}, body : {"empty"}]
    \cup [kind : {"response"}, status : StatusCodes, body : Bodies]

\* A backoff that grows by two seconds per attempt.
LinearBackoff(attempt) == 2 * attempt

\* wait_time = 2 ** attempt
Backoff(attempt) == 2 ^ attempt

\* response.json() if response.content else None, in the arguments of the
\* raise for a status of 400 and above: None for an empty body, the parsed
\* body for JSON, and json.JSONDecodeError for any other body.
ErrorBodyParses(response) == response.body \in {"empty", "json"}

\* The call after an attempt that raised out of _make_request.
Raised(call, entry, error, status_code) ==
    [call EXCEPT !.pc = "raised", !.log = Append(@, entry),
                 !.error = error, !.status_code = status_code]

\* The call after an attempt that left the try statement through one of the
\* handlers that set last_error: sleep and go round again, or, after the
\* last attempt, raise last_error.
Handled(call, entry, error) ==
    IF call.attempt < call.max_retries
    THEN [call EXCEPT !.attempt = @ + 1, !.last_error = error,
                      !.log = Append(@, [entry EXCEPT
                                           !.wait = Backoff(call.attempt)])]
    ELSE [call EXCEPT !.pc = "raised", !.last_error = error,
                      !.log = Append(@, entry),
                      !.error = error, !.status_code = 0]

\* One pass of the retry loop for the answer response.
AfterAttempt(call, response) ==
    LET entry == [kind |-> response.kind, status |-> response.status,
                  body |-> response.body, wait |-> 0]
    IN
    IF response.kind = "timeout" THEN Handled(call, entry, "timeout")
    ELSE IF response.kind = "connect_error" THEN Handled(call, entry, "connection")
    ELSE IF response.kind = "exception" THEN Handled(call, entry, "unexpected")
    ELSE IF response.status >= 400
    THEN IF response.status < 500
         THEN IF ErrorBodyParses(response)
              THEN Raised(call, entry, "http", response.status)
              ELSE Handled(call, entry, "unexpected")
         ELSE IF call.attempt < call.max_retries
         THEN [call EXCEPT !.attempt = @ + 1,
                           !.log = Append(@, [entry EXCEPT
                                                !.wait = Backoff(call.attempt)])]
         ELSE IF ErrorBodyParses(response)
              THEN Raised(call, entry, "http", response.status)
              ELSE Handled(call, entry, "unexpected")
    ELSE IF response.body = "json"
    THEN [call EXCEPT !.pc = "returned", !.log = Append(@, entry)]
    ELSE Raised(call, entry, "invalid_json", 0)

\* _make_request up to its first request: the client must be connected and
\* the loop must have a pass to make.
MakeRequest(max_retries, connected) ==
    LET call == [NoRequest EXCEPT !.max_retries = max_retries] IN
    /\ jf_request.pc \in {"idle", "returned", "raised"}
    /\ jf_request' =
          IF ~connected
          THEN [call EXCEPT !.pc = "raised", !.error = "not_connected"]
          ELSE IF max_retries + 1 <= 0
          THEN [call EXCEPT !.pc = "raised", !.error = "exhausted"]
          ELSE [call EXCEPT !.pc = "attempt"]
    /\ UNCHANGED <<soul, migrateVars, listVars, hybridVars, import_session, setupVars,
                   batch, wsVars, llmVars, parseVars, dbVars, apiVars,
                   syncVars, motifVars>>

RequestAttempt(response) ==
    /\ jf_request.pc = "attempt"
    /\ jf_request' = AfterAttempt(jf_request, response)
    /\ UNCHANGED <<soul, migrateVars, listVars, hybridVars, import_session, setupVars,
                   batch, wsVars, llmVars, parseVars, dbVars, apiVars,
                   syncVars, motifVars>>

MakeRequestCall ==
    \E max_retries \in -1..MaxRetries : \E connected \in BOOLEAN :
        MakeRequest(max_retries, connected)

AttemptStep == \E response \in Responses : RequestAttempt(response)

InitRequest ==
    /\ IdleLLM
    /\ IdleParse
    /\ IdleGen

NextRequest ==
    \/ MakeRequestCall
    \/ AttemptStep

SpecRequest == InitRequest /\ [][NextRequest]_vars

\* C24: a 4xx answer, whatever its body, is the only attempt of its call:
\* the error raised carries the status, and nothing is slept or retried.
C24_ClientErrorNotRetried ==
    \A i \in 1..Len(jf_request.log) :
        (jf_request.log[i].kind = "response"
         /\ jf_request.log[i].status \in 400..499) =>
           /\ i = 1
           /\ Len(jf_request.log) = 1
           /\ jf_request.log[i].wait = 0
           /\ jf_request.pc = "raised"
           /\ jf_request.status_code = jf_request.log[i].status

Retryable(entry) ==
    \/ entry.kind \in {"timeout", "connect_error"}
    \/ entry.kind = "response" /\ entry.status \in 500..599

Succeeded(entry) ==
    entry.kind = "response" /\ entry.status < 400 /\ entry.body = "json"

\* C25: a call makes at most max_retries + 1 attempts; a timeout, a
\* connection error or a 5xx on attempt k (counted from 0) that is not the
\* last is followed by a sleep of 2^k seconds and the next attempt; a
\* success ends the call with its value; only a success returns a value;
\* and after max_retries + 1 failed attempts the call has raised.
C25_BoundedRetries ==
    LET log == jf_request.log IN
    /\ Len(log) <= jf_request.max_retries + 1
    /\ \A i \in 1..Len(log) :
          /\ (Retryable(log[i]) /\ i - 1 < jf_request.max_retries) =>
                /\ log[i].wait = 2 ^ (i - 1)
                /\ i < Len(log) \/ jf_request.pc = "attempt"
          /\ Succeeded(log[i]) => i = Len(log) /\ jf_request.pc = "returned"
          /\ i - 1 >= jf_request.max_retries => log[i].wait = 0
    /\ jf_request.pc = "returned" => log # <<>> /\ Succeeded(log[Len(log)])
    /\ (/\ Len(log) = jf_request.max_retries + 1
        /\ log # <<>> => ~Succeeded(log[Len(log)])) =>
          jf_request.pc = "raised" /\ jf_request.error # None
    /\ jf_request.pc = "attempt" => Len(log) = jf_request.attempt

\* A call with two retries fails three times, by a timeout, a 5xx and a
\* connection error, sleeps 1 and 2 seconds and raises.
C25_Witness ==
    /\ jf_request.pc = "raised"
    /\ jf_request.max_retries = 2
    /\ Len(jf_request.log) = 3
    /\ jf_request.log[1].kind = "timeout" /\ jf_request.log[1].wait = 1
    /\ jf_request.log[2].kind = "response" /\ jf_request.log[2].status = 500
    /\ jf_request.log[2].wait = 2
    /\ jf_request.log[3].kind = "connect_error" /\ jf_request.log[3].wait = 0

-----------------------------------------------------------------------------
\* The counters of the run as a tuple.
SyncCounters(s) == <<s.processed, s.added, s.updated, s.unchanged, s.errors>>

\* The loop body for item: what _upsert_media_item does with it.
UpsertOf(item) == UpsertMediaItem(ExtractMediaInfo(item), media, sync.now + 1)

-----------------------------------------------------------------------------
\* C27: the sync-log row of a run always has a status among pending,
\* running, completed, completed_with_errors, failed and cancelled: running
\* from the start of the run, and completed, completed_with_errors or failed
\* once the run has ended.
C27_SyncLogStatus ==
    /\ sync.pc = "running" => sync.status = "running"
    /\ sync.pc = "done" =>
          sync.status \in {"completed", "completed_with_errors", "failed"}

-----------------------------------------------------------------------------
-----------------------------------------------------------------------------
(***************************************************************************)
(* api/llm_manager.py: _record_motif_usage on a history that is full.      *)
(* Marco Aurelio's history holds HistoryLimit rows, or two less, two rows  *)
(* per second, and Rosario Costras has two rows older than all of them.    *)
(***************************************************************************)
MaxPrunes == 1     \* _record_motif_usage calls on the full history

\* The seconds of use that fill a history of HistoryLimit rows.
FullHistory == (HistoryLimit - 2) \div 2

InitPrune ==
    /\ IdleLLM
    /\ IdleParse
    /\ IdleSync
    /\ IdleRest
    /\ characters = SeedCharacters
    /\ media = SeedMedia
    /\ critics = {}
    /\ nextCriticId = 1
    /\ reqs = [r \in Requests |-> IdleReq]
    /\ cart = IdleCart
    /\ lastOp = NoOp
    /\ deleted = {}
    /\ motif_history \in
          {Inserted("rosario_costras", others, 0, 1) \o EarlierHistory(n) :
              others \in {{}, {"virtud", "deber"}},
              n \in {FullHistory - 2, FullHistory - 1, FullHistory}}
    /\ variation = NoVariation

NextPrune ==
    /\ variation.calls < MaxPrunes
    /\ SelectVariationPackCall

SpecPrune == InitPrune /\ [][NextPrune]_vars

\* The number of the character's rows, and of those used after second t.
HistoryCount(history, character_id) ==
    Cardinality(RowsOfCharacter(history, character_id))

NewerCount(history, character_id, t) ==
    Cardinality({i \in RowsOfCharacter(history, character_id) :
                    history[i].used_at > t})

\* The second of use of the oldest of the character's rows.
OldestUse(history, character_id) ==
    LET times == {history[i].used_at :
                     i \in RowsOfCharacter(history, character_id)}
    IN  IF times = {} THEN 0
        ELSE CHOOSE t \in times : \A u \in times : t <= u

\* The rows of the other characters, in table order.
OthersRows(history, character_id) ==
    SelectSeq(history, LAMBDA row : row.character_id # character_id)

\* C29: after a _record_motif_usage call for a character the character has
\* at most 100 history rows, they are the most recently used of the rows it
\* had and the rows inserted, and the rows of the other characters are the
\* ones they had before.
C29_HistoryPruned ==
    [][motif_history' # motif_history =>
          LET c == variation'.character_id IN
          /\ HistoryCount(motif_history', c) <= 100
          /\ OthersRows(motif_history', c) = OthersRows(motif_history, c)
          /\ \E now \in {LatestUse(motif_history), LatestUse(motif_history) + 1} :
                LET grown == motif_history
                                \o Inserted(c, variation'.selected, now, 1)
                    oldest == OldestUse(motif_history', c)
                IN  /\ Range(motif_history') \subseteq Range(grown)
                    /\ HistoryCount(motif_history', c)
                          = Min(100, HistoryCount(grown, c))
                    \* every row used after the oldest row kept is kept, and
                    \* of the rows as old as that one no more than there were
                    /\ NewerCount(motif_history', c, oldest)
                          = NewerCount(grown, c, oldest)
                    /\ NewerCount(motif_history', c, oldest - 1)
                          <= NewerCount(grown, c, oldest - 1)]_vars

\* Three motifs were recorded for Marco Aurelio on a full history: his
\* oldest rows are gone, he has 100 rows, and Rosario Costras has her two.
C29_Witness ==
    /\ variation.made
    /\ variation.character_id = "marco_aurelio"
    /\ Cardinality(variation.selected) = 3
    /\ HistoryCount(motif_history, "marco_aurelio") = 100
    /\ \A i \in RowsOfCharacter(motif_history, "marco_aurelio") :
          motif_history[i].used_at > 0
    /\ HistoryCount(motif_history, "rosario_costras") = 2
    /\ \A i \in RowsOfCharacter(motif_history, "rosario_costras") :
          motif_history[i].used_at = 0

\* ---------------------------------------------------------------------------
\* Soul generator: web search, endpoint discovery, LLM call
\* ---------------------------------------------------------------------------

MaxSouls == 2

\* The labels of self.endpoints, in the order they are probed.
SoulEndpoints == <<"secondary/phi4", "primary">>

ARCHETYPES == {"troll", "estoico"}

SOUL_FIELDS == {"personality", "emoji"}

\* The two queries of fetch_context.
SoulQueries == 2

\* What one search gives: an exception, no usable body, or usable bodies.
QueryOutcomes == {"failed", "empty", "snippets"}

\* What GET /api/tags of one endpoint gives.
TagsOutcomes == {"unreachable", "not_loaded", "loaded"}

\* What POST /api/generate gives: an HTTP error, text that holds no JSON
\* object, an object without the field asked for, or an object with it.
GenerateOutcomes == {"http_error", "not_json", "json_without_field", "json"}

NoEndpointError == "No LLM endpoint available"
InvalidSoulError == "LLM did not return valid JSON for soul generation"
InvalidFieldError == "LLM did not return valid JSON for field"
UnknownFieldError == "Unknown soul field"
HTTPStatusError == "HTTPStatusError"

SoulReady == soul.pc \in {"idle", "returned", "raised"}

\* _call_llm up to the first await of _find_endpoint: the cached endpoint is
\* used without a probe, otherwise the endpoints are probed in order.
CallLlm(s) ==
    IF s.endpoint_cache # None
    THEN [s EXCEPT !.pc = "post", !.ep = s.endpoint_cache]
    ELSE [s EXCEPT !.pc = "probe", !.probed = 0]

\* generate_soul up to the first search of fetch_context.
GenerateSoul(archetype) ==
    /\ SoulReady
    /\ soul.calls < MaxSouls
    /\ soul' = [soul EXCEPT !.pc = "query", !.op = "generate_soul",
                            !.archetype = archetype, !.field = None,
                            !.searches = 0, !.snippets = 0, !.probed = 0,
                            !.ep = None, !.personality = None,
                            !.error = None, !.calls = @ + 1]
    /\ UNCHANGED <<jf_request, wsVars, batch, llmVars, parseVars, dbVars,
                   apiVars, syncVars, motifVars, migrateVars, listVars,
                   hybridVars, import_session, setupVars>>

\* regen_field up to the first await of _call_llm.
RegenField(field) ==
    /\ SoulReady
    /\ soul.calls < MaxSouls
    /\ LET started == [soul EXCEPT !.op = "regen_field", !.archetype = None,
                                   !.field = field, !.searches = 0,
                                   !.snippets = 0, !.probed = 0, !.ep = None,
                                   !.personality = None, !.error = None,
                                   !.calls = @ + 1]
       IN  soul' = IF field \notin SOUL_FIELDS
                   THEN [started EXCEPT !.pc = "raised",
                                        !.error = UnknownFieldError]
                   ELSE CallLlm(started)
    /\ UNCHANGED <<jf_request, wsVars, batch, llmVars, parseVars, dbVars,
                   apiVars, syncVars, motifVars, migrateVars, listVars,
                   hybridVars, import_session, setupVars>>

\* One query of fetch_context: the search is run, its exception is logged
\* and swallowed; after the last query the prompt is built and _call_llm
\* starts.  snippets counts the queries that gave usable bodies.
SearchQuery(outcome) ==
    /\ soul.pc = "query"
    /\ LET searched == [soul EXCEPT !.searches = @ + 1,
                                    !.snippets = IF outcome = "snippets"
                                                 THEN @ + 1 ELSE @]
       IN  soul' = IF searched.searches < SoulQueries
                   THEN searched
                   ELSE CallLlm(searched)
    /\ UNCHANGED <<jf_request, wsVars, batch, llmVars, parseVars, dbVars,
                   apiVars, syncVars, motifVars, migrateVars, listVars,
                   hybridVars, import_session, setupVars>>

\* One probe of _find_endpoint: an endpoint with its model loaded is cached
\* and used; after the last endpoint _call_llm raises.
ProbeEndpoint(outcome) ==
    /\ soul.pc = "probe"
    /\ LET ep == SoulEndpoints[soul.probed + 1]
       IN  soul' = IF outcome = "loaded"
                   THEN [soul EXCEPT !.pc = "post", !.ep = ep,
                                     !.endpoint_cache = ep,
                                     !.probed = @ + 1]
                   ELSE IF soul.probed + 1 < Len(SoulEndpoints)
                   THEN [soul EXCEPT !.probed = @ + 1]
                   ELSE [soul EXCEPT !.pc = "raised", !.probed = @ + 1,
                                     !.error = NoEndpointError]
    /\ UNCHANGED <<jf_request, wsVars, batch, llmVars, parseVars, dbVars,
                   apiVars, syncVars, motifVars, migrateVars, listVars,
                   hybridVars, import_session, setupVars>>

\* The personality returned: the pre-selected archetype wins.
Personality(archetype, answered) ==
    IF archetype # None /\ answered # archetype THEN archetype ELSE answered

\* The answer of POST /api/generate and what the caller makes of it.
PostGenerate(outcome, answered) ==
    /\ soul.pc = "post"
    /\ soul' =
         IF outcome = "http_error"
         THEN [soul EXCEPT !.pc = "raised", !.error = HTTPStatusError]
         ELSE IF soul.op = "generate_soul"
         THEN IF outcome = "not_json"
              THEN [soul EXCEPT !.pc = "raised", !.error = InvalidSoulError]
              ELSE [soul EXCEPT !.pc = "returned",
                                !.personality =
                                    IF outcome = "json"
                                    THEN Personality(soul.archetype, answered)
                                    ELSE soul.archetype]
         ELSE IF outcome \in {"not_json", "json_without_field"}
              THEN [soul EXCEPT !.pc = "raised", !.error = InvalidFieldError]
              ELSE [soul EXCEPT !.pc = "returned",
                                !.personality =
                                    IF soul.field = "personality"
                                    THEN answered ELSE None]
    /\ UNCHANGED <<jf_request, wsVars, batch, llmVars, parseVars, dbVars,
                   apiVars, syncVars, motifVars, migrateVars, listVars,
                   hybridVars, import_session, setupVars>>

GenerateSoulCall == \E archetype \in ARCHETYPES \cup {None} : GenerateSoul(archetype)

RegenFieldCall == \E field \in SOUL_FIELDS \cup {"name"} : RegenField(field)

SearchQueryStep == \E outcome \in QueryOutcomes : SearchQuery(outcome)

ProbeEndpointStep == \E outcome \in TagsOutcomes : ProbeEndpoint(outcome)

PostGenerateStep ==
    \E outcome \in GenerateOutcomes, answered \in ARCHETYPES :
        PostGenerate(outcome, answered)

InitSoul ==
    /\ IdleLLM
    /\ IdleParse
    /\ IdleGen

NextSoul ==
    \/ GenerateSoulCall
    \/ RegenFieldCall
    \/ SearchQueryStep
    \/ ProbeEndpointStep
    \/ PostGenerateStep

SpecSoul == InitSoul /\ [][NextSoul]_vars

\* C30: generate_soul has run a web search only once an endpoint with its
\* model loaded has been found, and a call that fails for want of an endpoint
\* has run no search.
C30_NoSearchWithoutEndpoint ==
    soul.op = "generate_soul" =>
        /\ soul.searches > 0 => soul.endpoint_cache # None
        /\ (soul.pc = "raised" /\ soul.error = NoEndpointError) =>
               soul.searches = 0

=============================================================================
